---- MODULE Spec2Model ----
(***************************************************************************)
(* A model of the LODES map pipeline (src/lodes_unified_map.py, with the   *)
(* block-level statistics of src/lodes_map.py): block rows are loaded,     *)
(* aggregated to tracts, enriched with dominant sector, concentration and  *)
(* location quotients, joined to ZCTAs by the bounding-box / nearest-center*)
(* heuristic, merged onto the boundary features, and block points are      *)
(* placed by tract centroid plus seeded jitter.                            *)
(*                                                                         *)
(* Floating-point values are modelled by exact rationals together with the *)
(* IEEE outcomes inf and nan of a division by zero; rounding error of the  *)
(* binary representation is not modelled.  Identifier strings that the     *)
(* code slices (geocodes, GEOIDs) are tuples of decimal digits.            *)
(***************************************************************************)
EXTENDS Integers, Sequences, FiniteSets, TLC

VARIABLES
    pc,               \* position of the run in main()
    raw_rows,         \* rows of data/lodes_wac_blocks_ca_2021.parquet
    df,               \* load_lodes_data(): LA County rows with tract and block
    block_df,         \* aggregate_to_levels(): block table
    tract_df,         \* aggregate_to_levels(): tract table (enriched)
    block_stats,      \* lodes_map.calculate_dominant_sector(df)
    tract_boundaries, \* what download_tract_boundaries() returns (cache or service)
    zcta_boundaries,  \* what download_zcta_boundaries() returns
    crosswalk_file,   \* data/tract_zcta_crosswalk.parquet
    tract_geojson,    \* the tract feature collection held by merge_data_with_boundaries
    zip_geojson,      \* the ZCTA feature collection held by merge_data_with_boundaries
    tract_centroids,  \* merge_data_with_boundaries: tract id -> (lon, lat)
    zcta_bounds,      \* merge_data_with_boundaries: zcta -> bounding box and center
    tract_to_zcta,    \* merge_data_with_boundaries: the correspondence in use
    strategy,         \* which strategy produced tract_to_zcta
    zcta_data,        \* merge_data_with_boundaries: zcta -> sums and statistics
    block_points,     \* merge_data_with_boundaries: the point list
    hash_secret,      \* the process's string-hash secret (PYTHONHASHSEED)
    centroid_cache,   \* data/la_block_centroids.parquet
    run,              \* number of the current run of the program
    seed_log,         \* history: block -> seeds passed to np.random.seed, over all runs
    point_log,        \* history: block -> (lon, lat) placed, over all runs
    page,             \* the generated HTML page: the data its script embeds
    currentGeoLevel,  \* script state: 'block', 'tract' or 'zip'
    currentView,      \* script state: 'dominant' or 'filter'
    selectedSector,   \* script state: a sector name or null
    currentLayer,     \* script state: the choropleth layer on the map or null
    blockMarkers,     \* script state: the circle markers on the map
    timers,           \* setTimeout callbacks of drawBlockPoints not yet run
    legend,           \* style.display of the legend element
    zcta_service,     \* TIGERweb: the answer to the query of each ZIP prefix
    zcta_cache,       \* data/la_zctas.geojson
    dl_pc,            \* position in download_zcta_boundaries()
    prefix_i,         \* download_zcta_boundaries: index of the next prefix
    all_features,     \* download_zcta_boundaries: features collected so far
    queried,          \* history: the prefixes a query was sent for
    zcta_result       \* what download_zcta_boundaries() has returned

pipeline == <<pc, raw_rows, df, block_df, tract_df, block_stats, tract_boundaries,
              zcta_boundaries, crosswalk_file, tract_geojson, zip_geojson,
              tract_centroids, zcta_bounds, tract_to_zcta, strategy, zcta_data,
              block_points, hash_secret, centroid_cache, run, seed_log, point_log>>

script == <<page, currentGeoLevel, currentView, selectedSector, currentLayer,
            blockMarkers, timers, legend>>

download == <<zcta_service, zcta_cache, dl_pc, prefix_i, all_features, queried,
              zcta_result>>

vars == <<pipeline, script, download>>

inputs == <<raw_rows, tract_boundaries, zcta_boundaries, crosswalk_file>>

-----------------------------------------------------------------------------
(* Bounds of the model. *)

\* largest count of one sector in one block row of the general input family
MaxCount == 1
\* largest number of block rows of the general input family
MaxRows == 3
\* runs of the program over the same dataset
MaxRuns == 2
\* largest number of block points embedded in a page
MaxPoints == 2
\* largest number of drawBlockPoints callbacks pending at once
MaxTimers == 2
\* the ZIP prefixes whose answers vary one by one; the others answer alike
MaxVaried == 2
\* the string-hash secrets a process may draw are 0..MaxSecret
MaxSecret == 1

-----------------------------------------------------------------------------
(* Numbers: a float is a rational n/d in lowest terms, inf or nan. *)

Abs(x) == IF x < 0 THEN -x ELSE x

RECURSIVE GCD(_, _)
GCD(a, b) == IF b = 0 THEN a ELSE GCD(b, a % b)

Num(n, d) == [k |-> "num", n |-> n, d |-> d]
NaN == [k |-> "nan", n |-> 0, d |-> 0]
Inf == [k |-> "inf", n |-> 0, d |-> 0]
\* a dict key or column that was never written
Absent == [k |-> "absent", n |-> 0, d |-> 0]

\* the rational n/d, d > 0, in lowest terms
Norm(n, d) ==
    LET g == GCD(Abs(n), d)
    IN  IF g = 0 THEN Num(0, 1) ELSE Num(n \div g, d \div g)

I(n) == Num(n, 1)

IsNum(x) == x.k = "num"

\* x / y for non-negative operands, as numpy computes it (no exception:
\* x/0 is inf, 0/0 is nan)
FDiv(x, y) ==
    CASE x.k = "nan" \/ y.k = "nan" -> NaN
      [] x.k = "inf" -> IF y.k = "inf" THEN NaN ELSE Inf
      [] y.k = "inf" -> Num(0, 1)
      [] y.n = 0 -> IF x.n = 0 THEN NaN ELSE Inf
      [] OTHER -> Norm(x.n * y.d, x.d * y.n)

LCM(a, b) == (a \div GCD(a, b)) * b

\* the numerator of the finite value x over the denominator L, a multiple of x.d
Over(x, L) == x.n * (L \div x.d)

FAdd(x, y) ==
    CASE x.k = "nan" \/ y.k = "nan" -> NaN
      [] x.k = "inf" \/ y.k = "inf" -> Inf
      [] OTHER -> LET L == LCM(x.d, y.d) IN Norm(Over(x, L) + Over(y, L), L)

FSub(x, y) == LET L == LCM(x.d, y.d) IN Norm(Over(x, L) - Over(y, L), L)

FMul(x, y) ==
    CASE x.k = "nan" \/ y.k = "nan" -> NaN
      [] x.k = "inf" \/ y.k = "inf" ->
            IF (x.k = "num" /\ x.n = 0) \/ (y.k = "num" /\ y.n = 0) THEN NaN ELSE Inf
      [] OTHER -> Norm(x.n * y.n, x.d * y.d)

\* x < y and x <= y on finite values
FLt(x, y) == LET L == LCM(x.d, y.d) IN Over(x, L) < Over(y, L)
FLe(x, y) == LET L == LCM(x.d, y.d) IN Over(x, L) <= Over(y, L)

\* Series.replace(0, np.nan) on one value
ReplaceZero(x) == IF x.k = "num" /\ x.n = 0 THEN NaN ELSE x

-----------------------------------------------------------------------------
(* The sector enumeration. *)

NumSectors == 20

\* CNS_COLS: CNS01..CNS20 by index, in the order of the list
CNS_COLS == 1..NumSectors

SectorNames ==
    <<"Agriculture", "Mining", "Utilities", "Construction", "Manufacturing",
      "Wholesale Trade", "Retail Trade", "Transportation", "Information",
      "Finance", "Real Estate", "Professional Services", "Management",
      "Admin Support", "Education", "Healthcare", "Arts/Entertainment",
      "Accommodation/Food", "Other Services", "Public Admin">>

SectorColors ==
    <<"#27ae60", "#95a5a6", "#34495e", "#c0392b", "#e67e22",
      "#27ae60", "#3498db", "#16a085", "#f15a22", "#2c3e50",
      "#8e44ad", "#9b59b6", "#6c5ce7", "#f39c12", "#1abc9c",
      "#2ecc71", "#e74c3c", "#f1c40f", "#bdc3c7", "#7f8c8d">>

\* SECTORS.get(x, ('XX', 'Unknown', '#888'))[1] and [2]; x = 0 stands for a
\* key that is no sector code
SECTORS_name(x) == IF x \in CNS_COLS THEN SectorNames[x] ELSE "Unknown"
SECTORS_color(x) == IF x \in CNS_COLS THEN SectorColors[x] ELSE "#888"

Retail == 7
Healthcare == 16

-----------------------------------------------------------------------------
(* Generic helpers. *)

RECURSIVE SumOver(_, _)
\* sum of f[x] over the finite set S
SumOver(S, f) ==
    IF S = {} THEN 0
    ELSE LET x == CHOOSE y \in S : TRUE IN f[x] + SumOver(S \ {x}, f)

Range(s) == {s[i] : i \in DOMAIN s}

SeqSum(s) == SumOver(DOMAIN s, s)

\* the largest value of the row r over the columns
RowMax(r) == CHOOSE m \in Range(r) : \A s \in DOMAIN r : r[s] <= m

RECURSIVE scan_max_last(_, _, _)
\* a scan in which a later column that equals the best so far replaces it
scan_max_last(r, i, best) ==
    IF i > Len(r) THEN best
    ELSE scan_max_last(r, i + 1, IF r[i] >= r[best] THEN i ELSE best)

RECURSIVE scan_max(_, _, _)
\* one pass over the columns in order; a column replaces the best so far only
\* if its value is greater
scan_max(r, i, best) ==
    IF i > Len(r) THEN best
    ELSE scan_max(r, i + 1, IF r[i] > r[best] THEN i ELSE best)

\* IdxMax with the tie going to the last column that holds the maximum
IdxMaxLast(r) == scan_max_last(r, 2, 1)

\* DataFrame.idxmax(axis=1) and max(d, key=d.get) over the columns CNS01..CNS20
IdxMax(r) == scan_max(r, 2, 1)

-----------------------------------------------------------------------------
(* Geography codes: tuples of decimal digits. *)

GeocodeWidth == 15
TractWidth == 11

\* str.zfill(width): left-pad with zeros, never truncate
RECURSIVE zfill(_, _)
zfill(s, width) == IF Len(s) >= width THEN s ELSE zfill(<<0>> \o s, width)

\* s[a:b] of Python on a string (0-based, end exclusive, clipped to the length)
Slice(s, a, b) == SubSeq(s, a + 1, IF b > Len(s) THEN Len(s) ELSE b)

-----------------------------------------------------------------------------
(* load_lodes_data *)

LA_COUNTY == <<0, 3, 7>>

load_row(r) ==
    LET g == zfill(r.w_geocode, GeocodeWidth)
    IN  [w_geocode |-> g,
         county    |-> Slice(g, 2, 5),
         tract     |-> Slice(g, 0, TractWidth),
         block     |-> Slice(g, 0, GeocodeWidth),
         C000      |-> r.C000,
         cns       |-> r.cns]

load_lodes_data(rows) ==
    SelectSeq([i \in DOMAIN rows |-> load_row(rows[i])],
              LAMBDA r : r.county = LA_COUNTY)

-----------------------------------------------------------------------------
(* lodes_map.calculate_dominant_sector: per-block statistics *)

calculate_dominant_sector(rows) ==
    [i \in DOMAIN rows |->
        LET r == rows[i]
            dominant == IdxMax(r.cns)
        IN  [block                |-> r.block,
             dominant_sector      |-> dominant,
             dominant_jobs        |-> RowMax(r.cns),
             total_jobs           |-> r.C000,
             sector_name          |-> SECTORS_name(dominant),
             sector_concentration |-> FDiv(I(RowMax(r.cns)), ReplaceZero(I(r.C000)))]]

-----------------------------------------------------------------------------
(* aggregate_to_levels *)

\* block level: dominant sector of every row, then the rows with jobs
block_level(rows) ==
    SelectSeq([i \in DOMAIN rows |->
                  [block         |-> rows[i].block,
                   tract         |-> rows[i].tract,
                   total_jobs    |-> rows[i].C000,
                   cns           |-> rows[i].cns,
                   dominant_cns  |-> IdxMax(rows[i].cns),
                   dominant_jobs |-> RowMax(rows[i].cns)]],
              LAMBDA b : b.total_jobs > 0)

ZeroUnit == [total_jobs |-> 0, cns |-> [s \in CNS_COLS |-> 0]]

RECURSIVE groupby_last(_, _)
\* a grouping that keeps the last row of each tract instead of the sum
groupby_last(rows, acc) ==
    IF rows = <<>> THEN acc
    ELSE LET r == Head(rows)
         IN  groupby_last(Tail(rows),
                          [t \in DOMAIN acc \cup {r.tract} |->
                              IF t = r.tract THEN [total_jobs |-> r.C000, cns |-> r.cns]
                              ELSE acc[t]])

RECURSIVE groupby_with_jobs(_, _)
\* a grouping that passes over the rows whose reference total is 0
groupby_with_jobs(rows, acc) ==
    IF rows = <<>> THEN acc
    ELSE LET r == Head(rows)
             prev == IF r.tract \in DOMAIN acc THEN acc[r.tract]
                     ELSE [total_jobs |-> 0, cns |-> [s \in 1..NumSectors |-> 0]]
             new == [total_jobs |-> prev.total_jobs + r.C000,
                     cns |-> [s \in 1..NumSectors |-> prev.cns[s] + r.cns[s]]]
         IN  groupby_with_jobs(Tail(rows),
                               IF r.C000 = 0 THEN acc
                               ELSE [t \in DOMAIN acc \cup {r.tract} |->
                                        IF t = r.tract THEN new ELSE acc[t]])

RECURSIVE groupby_sum(_, _)
\* df.groupby('tract')[agg_cols].sum(): one pass over the rows, every row added
\* to the group of its tract
groupby_sum(rows, acc) ==
    IF rows = <<>> THEN acc
    ELSE LET r == Head(rows)
             prev == IF r.tract \in DOMAIN acc THEN acc[r.tract] ELSE ZeroUnit
             new == [total_jobs |-> prev.total_jobs + r.C000,
                     cns |-> [s \in CNS_COLS |-> prev.cns[s] + r.cns[s]]]
         IN  groupby_sum(Tail(rows),
                         [t \in DOMAIN acc \cup {r.tract} |->
                             IF t = r.tract THEN new ELSE acc[t]])

\* column sums that take in a statistics column where the table has one
column_sums_all(t) ==
    [total_jobs |-> SumOver(DOMAIN t, [x \in DOMAIN t |->
                        t[x].total_jobs +
                        (IF "dominant_cns" \in DOMAIN t[x] THEN t[x].dominant_cns ELSE 0)]),
     cns |-> [s \in CNS_COLS |-> SumOver(DOMAIN t, [x \in DOMAIN t |-> t[x].cns[s]])]]

\* reference totals supplied as fixed numbers: 40 jobs, 25 of them in Retail
\* Trade and 15 in Healthcare
column_sums_fixed(t) ==
    [total_jobs |-> 40,
     cns |-> [s \in 1..NumSectors |-> IF s = 7 THEN 25 ELSE IF s = 16 THEN 15 ELSE 0]]

\* tract_df[['total_jobs'] + CNS_COLS].sum(), and the sums over zcta_data.values()
column_sums(t) ==
    [total_jobs |-> SumOver(DOMAIN t, [x \in DOMAIN t |-> t[x].total_jobs]),
     cns |-> [s \in CNS_COLS |-> SumOver(DOMAIN t, [x \in DOMAIN t |-> t[x].cns[s]])]]

\* a concentration kept as a percentage
concentration_pct(dominant_jobs, total_jobs) ==
    FMul(FDiv(I(dominant_jobs), I(total_jobs)), I(100))

\* tract_df['dominant_jobs'] / tract_df['total_jobs'], one row
concentration_of(dominant_jobs, total_jobs) == FDiv(I(dominant_jobs), I(total_jobs))

\* the quotient taken upside down
lq_inverted(share, county_share) == FDiv(county_share, share)

\* tract_df[f'{cns}_share'] / county_share, one row
lq_of(share, county_share) == FDiv(share, county_share)

\* the statistics columns of the tract table (dominant sector, concentration,
\* shares and location quotients), computed from its count columns
tract_statistics(t) ==
    LET county_totals == column_sums(t)
        county_share == [s \in CNS_COLS |->
                            FDiv(I(county_totals.cns[s]), I(county_totals.total_jobs))]
    IN  [x \in DOMAIN t |->
            LET u == t[x]
                dominant_cns == IdxMax(u.cns)
                dominant_jobs == RowMax(u.cns)
                share == [s \in CNS_COLS |-> FDiv(I(u.cns[s]), ReplaceZero(I(u.total_jobs)))]
            IN  [total_jobs      |-> u.total_jobs,
                 cns             |-> u.cns,
                 dominant_cns    |-> dominant_cns,
                 dominant_jobs   |-> dominant_jobs,
                 concentration   |-> concentration_of(dominant_jobs, u.total_jobs),
                 share           |-> share,
                 lq              |-> [s \in CNS_COLS |-> lq_of(share[s], county_share[s])],
                 dominant_sector |-> SECTORS_name(dominant_cns),
                 sector_color    |-> SECTORS_color(dominant_cns)]]

tract_level(rows) == tract_statistics(groupby_sum(rows, <<>>))

-----------------------------------------------------------------------------
(* Boundary features.  A tract feature is [GEOID, gtype, coordinates,       *)
(* properties]; a ZCTA feature carries ZCTA5 and GEOID ("" for a key that   *)
(* is missing or empty); properties holds the metrics the merge writes.     *)
(* Polygon coordinates are a list of rings, a ring a                        *)
(* list of <<lon, lat>>; MultiPolygon coordinates are a list of polygons;   *)
(* gtype "null" is a feature whose geometry is null.                        *)

\* the properties the merge writes, before it has written them
UnsetProps ==
    [total_jobs      |-> Absent,
     dominant_sector |-> "<absent>",
     sector_color    |-> "<absent>",
     concentration   |-> Absent,
     jobs            |-> [s \in CNS_COLS |-> Absent],
     lq              |-> [s \in CNS_COLS |-> Absent],
     zip             |-> "<absent>"]

RECURSIVE Pow10(_)
Pow10(n) == IF n = 0 THEN 1 ELSE 10 * Pow10(n - 1)

\* a rounding that drops the digits after ndigits
round_down(x, ndigits) ==
    IF ~IsNum(x) THEN x
    ELSE Norm((x.n * Pow10(ndigits)) \div x.d, Pow10(ndigits))

\* round(x, ndigits) of a non-negative float: to the nearest multiple of
\* 10^-ndigits, an exact half to the even neighbour; nan and inf stay
round(x, ndigits) ==
    IF ~IsNum(x) THEN x
    ELSE LET scale == Pow10(ndigits)
             q == (x.n * scale) \div x.d
             r == (x.n * scale) % x.d
             up == \/ 2 * r > x.d
                   \/ (2 * r = x.d /\ q % 2 = 1)
         IN  Norm(IF up THEN q + 1 ELSE q, scale)

\* np.mean of a non-empty list of integers
mean(xs) == Norm(SeqSum(xs), Len(xs))

SeqMin(xs) == CHOOSE m \in Range(xs) : \A x \in Range(xs) : m <= x
SeqMax(xs) == CHOOSE m \in Range(xs) : \A x \in Range(xs) : x <= m

Lons(coords) == [i \in DOMAIN coords |-> coords[i][1]]
Lats(coords) == [i \in DOMAIN coords |-> coords[i][2]]

\* max(coords, key=lambda x: len(x[0])): the first polygon whose exterior ring
\* has the most vertices
largest_polygon(polys) ==
    polys[CHOOSE i \in DOMAIN polys :
            /\ \A j \in DOMAIN polys : Len(polys[j][1]) <= Len(polys[i][1])
            /\ \A j \in DOMAIN polys : j < i => Len(polys[j][1]) < Len(polys[i][1])]

\* the vertex list the tract loop takes the centroid of; raised: the
\* expression raises (IndexError, ValueError, TypeError)
tract_coords(f) ==
    CASE f.gtype = "Polygon" ->
            IF Len(f.coordinates) = 0
            THEN [raised |-> TRUE, coords |-> <<>>]
            ELSE [raised |-> FALSE, coords |-> f.coordinates[1]]
      [] f.gtype = "MultiPolygon" ->
            IF Len(f.coordinates) = 0 \/ \E j \in DOMAIN f.coordinates : Len(f.coordinates[j]) = 0
            THEN [raised |-> TRUE, coords |-> <<>>]
            ELSE [raised |-> FALSE, coords |-> largest_polygon(f.coordinates)[1]]
      [] f.gtype = "null" -> [raised |-> TRUE, coords |-> <<>>]
      [] f.gtype = "Point" -> [raised |-> f.coordinates # <<>>, coords |-> <<>>]
      [] OTHER -> [raised |-> FALSE, coords |-> f.coordinates]

\* the GEOID taken whole, whatever its length
tract_id_whole(geoid) == geoid

\* geoid[:11] if len(geoid) > 11 else geoid
tract_id_of(geoid) == IF Len(geoid) > TractWidth THEN Slice(geoid, 0, TractWidth) ELSE geoid

\* properties of a tract feature that matched a row of the tract table
tract_matched_props(p, data) ==
    [p EXCEPT !.total_jobs = I(data.total_jobs),
              !.dominant_sector = data.dominant_sector,
              !.sector_color = data.sector_color,
              !.concentration = round(FMul(data.concentration, I(100)), 1),
              !.jobs = [s \in CNS_COLS |-> I(data.cns[s])],
              !.lq = [s \in CNS_COLS |-> round(data.lq[s], 2)]]

\* properties of a feature that matched no unit
default_props(p) ==
    [p EXCEPT !.total_jobs = I(0),
              !.dominant_sector = "None",
              !.sector_color = "#333",
              !.concentration = I(0)]

\* a feature collection as loaded into memory: every feature with the
\* properties the merge will write still unset
loaded(collection) ==
    [available |-> collection.available,
     features |-> [i \in DOMAIN collection.features |->
                     LET f == collection.features[i]
                     IN  [x \in DOMAIN f \cup {"properties"} |->
                            IF x = "properties" THEN UnsetProps ELSE f[x]]]]

\* tract_df.set_index('tract').to_dict('index')
to_lookup(t) == t

RECURSIVE tract_loop(_, _, _)
\* the loop over tract_geojson['features']: centroid of each feature with
\* vertices, statistics or defaults onto its properties; stops where the body
\* raises
tract_loop(features, lookup, acc) ==
    IF Len(acc.features) = Len(features) THEN acc
    ELSE LET f == features[Len(acc.features) + 1]
             tract_id == tract_id_of(f.GEOID)
             c == tract_coords(f)
         IN  IF c.raised THEN [acc EXCEPT !.raised = TRUE]
             ELSE LET centroids ==
                          IF c.coords # <<>>
                          THEN [t \in DOMAIN acc.centroids \cup {tract_id} |->
                                   IF t = tract_id
                                   THEN <<mean(Lons(c.coords)), mean(Lats(c.coords))>>
                                   ELSE acc.centroids[t]]
                          ELSE acc.centroids
                      props == IF tract_id \in DOMAIN lookup
                               THEN tract_matched_props(f.properties, lookup[tract_id])
                               ELSE default_props(f.properties)
                  IN  tract_loop(features, lookup,
                                 [raised |-> FALSE,
                                  centroids |-> centroids,
                                  features |-> Append(acc.features,
                                                      [f EXCEPT !.properties = props])])

-----------------------------------------------------------------------------
(* ZCTA bounding boxes and centers *)

\* feature['properties'].get('ZCTA5') or feature['properties'].get('GEOID', '')
zcta_of(f) == IF f.ZCTA5 # "" THEN f.ZCTA5 ELSE f.GEOID

RECURSIVE Flatten(_)
Flatten(ss) == IF ss = <<>> THEN <<>> ELSE Head(ss) \o Flatten(Tail(ss))

\* all_coords of a ZCTA feature
zcta_coords(f) ==
    CASE f.gtype = "Polygon" ->
            IF Len(f.coordinates) = 0
            THEN [raised |-> TRUE, coords |-> <<>>]
            ELSE [raised |-> FALSE, coords |-> f.coordinates[1]]
      [] f.gtype = "MultiPolygon" ->
            [raised |-> FALSE,
             coords |-> Flatten([j \in DOMAIN f.coordinates |-> Flatten(f.coordinates[j])])]
      [] f.gtype = "null" -> [raised |-> TRUE, coords |-> <<>>]
      [] OTHER -> [raised |-> FALSE, coords |-> <<>>]

bounds_of(coords) ==
    [min_lon |-> SeqMin(Lons(coords)), max_lon |-> SeqMax(Lons(coords)),
     min_lat |-> SeqMin(Lats(coords)), max_lat |-> SeqMax(Lats(coords)),
     center_lon |-> mean(Lons(coords)), center_lat |-> mean(Lats(coords))]

\* d[key] = value on a dict kept as a list of entries in insertion order: a
\* key already present keeps its place
dict_set(d, key, value) ==
    IF \E i \in DOMAIN d : d[i].zcta = key
    THEN [i \in DOMAIN d |-> IF d[i].zcta = key THEN [zcta |-> key, bounds |-> value] ELSE d[i]]
    ELSE Append(d, [zcta |-> key, bounds |-> value])

RECURSIVE zcta_loop(_, _, _)
\* the loop that fills zcta_bounds; acc.n features are done
zcta_loop(features, n, acc) ==
    IF n = Len(features) THEN acc
    ELSE LET f == features[n + 1]
             c == zcta_coords(f)
         IN  IF c.raised THEN [acc EXCEPT !.raised = TRUE]
             ELSE zcta_loop(features, n + 1,
                            IF c.coords # <<>>
                            THEN [acc EXCEPT !.bounds = dict_set(acc.bounds, zcta_of(f), bounds_of(c.coords))]
                            ELSE acc)

-----------------------------------------------------------------------------
(* Assignment of each tract to a ZCTA *)

\* (lon - center_lon)**2 + (lat - center_lat)**2
dist2(lon, lat, b) ==
    LET dx == FSub(lon, b.center_lon)
        dy == FSub(lat, b.center_lat)
    IN  FAdd(FMul(dx, dx), FMul(dy, dy))

in_bbox(lon, lat, b) ==
    /\ FLe(I(b.min_lon), lon) /\ FLe(lon, I(b.max_lon))
    /\ FLe(I(b.min_lat), lat) /\ FLe(lat, I(b.max_lat))

RECURSIVE nearest(_, _, _, _, _)
\* one pass over zcta_bounds.items() keeping the first entry of least distance
\* among those that pass the filter; best is [zcta, dist] ("" and Inf: None)
nearest(entries, lon, lat, inside_only, best) ==
    IF entries = <<>> THEN best
    ELSE LET e == Head(entries)
             d == dist2(lon, lat, e.bounds)
             pass == ~inside_only \/ in_bbox(lon, lat, e.bounds)
             better == pass /\ (best.dist.k = "inf" \/ FLt(d, best.dist))
         IN  nearest(Tail(entries), lon, lat, inside_only,
                     IF better THEN [found |-> TRUE, zcta |-> e.zcta, dist |-> d] ELSE best)

NoBest == [found |-> FALSE, zcta |-> "", dist |-> Inf]

\* best_zcta without the pass over the nearest centers
best_zcta_inside(entries, lon, lat) == nearest(entries, lon, lat, TRUE, NoBest)

\* best_zcta by distance alone, whatever the boxes hold
best_zcta_nearest(entries, lon, lat) == nearest(entries, lon, lat, FALSE, NoBest)

\* best_zcta with the first entry taken when no box holds the centroid
best_zcta_first(entries, lon, lat) ==
    LET inside == nearest(entries, lon, lat, TRUE, NoBest)
    IN  IF inside.found \/ entries = <<>> THEN inside
        ELSE [found |-> TRUE, zcta |-> entries[1].zcta,
              dist |-> dist2(lon, lat, entries[1].bounds)]

\* best_zcta for one tract centroid
best_zcta(entries, lon, lat) ==
    LET inside == nearest(entries, lon, lat, TRUE, NoBest)
    IN  IF inside.found THEN inside
        ELSE nearest(entries, lon, lat, FALSE, NoBest)

\* tract_to_zcta: the tracts whose best_zcta is truthy (not None, not '')
assign_tracts(centroids, entries) ==
    LET best == [t \in DOMAIN centroids |->
                    best_zcta(entries, centroids[t][1], centroids[t][2])]
        assigned == {t \in DOMAIN centroids : best[t].found /\ best[t].zcta # ""}
    IN  [t \in assigned |-> best[t].zcta]

-----------------------------------------------------------------------------
(* ZCTA sums and statistics *)

RECURSIVE aggregate_zcta_twice(_, _, _, _)
\* a loop that opens the record of a ZCTA with the counts of its first tract
\* and then adds that tract to it
aggregate_zcta_twice(todo, t2z, lookup, acc) ==
    IF todo = {} THEN acc
    ELSE LET tract_id == CHOOSE t \in todo : TRUE
             zcta == t2z[tract_id]
         IN  IF tract_id \notin DOMAIN lookup
             THEN aggregate_zcta_twice(todo \ {tract_id}, t2z, lookup, acc)
             ELSE LET data == lookup[tract_id]
                      prev == IF zcta \in DOMAIN acc THEN acc[zcta]
                              ELSE [total_jobs |-> data.total_jobs, cns |-> data.cns]
                      new == [total_jobs |-> prev.total_jobs + data.total_jobs,
                              cns |-> [s \in 1..20 |-> prev.cns[s] + data.cns[s]]]
                  IN  aggregate_zcta_twice(todo \ {tract_id}, t2z, lookup,
                                           [z \in DOMAIN acc \cup {zcta} |->
                                               IF z = zcta THEN new ELSE acc[z]])

RECURSIVE aggregate_zcta_padded(_, _, _, _)
\* a loop that ends by opening an empty record, under the empty code, for the
\* tracts of the table that have no ZCTA
aggregate_zcta_padded(todo, t2z, lookup, acc) ==
    IF todo = {}
    THEN IF DOMAIN lookup \subseteq DOMAIN t2z THEN acc
         ELSE [z \in DOMAIN acc \cup {""} |->
                  IF z \in DOMAIN acc THEN acc[z]
                  ELSE [total_jobs |-> 0, cns |-> [s \in 1..20 |-> 0]]]
    ELSE LET tract_id == CHOOSE t \in todo : TRUE
             zcta == t2z[tract_id]
         IN  IF tract_id \notin DOMAIN lookup
             THEN aggregate_zcta_padded(todo \ {tract_id}, t2z, lookup, acc)
             ELSE LET data == lookup[tract_id]
                      prev == IF zcta \in DOMAIN acc THEN acc[zcta]
                              ELSE [total_jobs |-> 0, cns |-> [s \in 1..20 |-> 0]]
                      new == [total_jobs |-> prev.total_jobs + data.total_jobs,
                              cns |-> [s \in 1..20 |-> prev.cns[s] + data.cns[s]]]
                  IN  aggregate_zcta_padded(todo \ {tract_id}, t2z, lookup,
                                            [z \in DOMAIN acc \cup {zcta} |->
                                                IF z = zcta THEN new ELSE acc[z]])

RECURSIVE aggregate_zcta(_, _, _, _)
\* the loop over tract_to_zcta.items(): every assigned tract that has a row in
\* the tract table is added to the record of its ZCTA
aggregate_zcta(todo, t2z, lookup, acc) ==
    IF todo = {} THEN acc
    ELSE LET tract_id == CHOOSE t \in todo : TRUE
             zcta == t2z[tract_id]
         IN  IF tract_id \notin DOMAIN lookup
             THEN aggregate_zcta(todo \ {tract_id}, t2z, lookup, acc)
             ELSE LET data == lookup[tract_id]
                      prev == IF zcta \in DOMAIN acc THEN acc[zcta] ELSE ZeroUnit
                      new == [total_jobs |-> prev.total_jobs + data.total_jobs,
                              cns |-> [s \in CNS_COLS |-> prev.cns[s] + data.cns[s]]]
                  IN  aggregate_zcta(todo \ {tract_id}, t2z, lookup,
                                     [z \in DOMAIN acc \cup {zcta} |->
                                         IF z = zcta THEN new ELSE acc[z]])

\* a ZCTA record before its statistics are written
zcta_record(u) ==
    [total_jobs      |-> u.total_jobs,
     cns             |-> u.cns,
     dominant_cns    |-> 0,
     dominant_jobs   |-> Absent,
     concentration   |-> Absent,
     dominant_sector |-> "<absent>",
     sector_color    |-> "<absent>",
     lq              |-> [s \in CNS_COLS |-> Absent]]

\* zcta_statistics with a location quotient for the dominant sector only
zcta_statistics_dominant(zd) ==
    LET total == SumOver(DOMAIN zd, [z \in DOMAIN zd |-> zd[z].total_jobs])
    IN  [z \in DOMAIN zd |->
            LET data == zd[z]
                dominant_cns == IdxMax(data.cns)
                ref == SumOver(DOMAIN zd, [y \in DOMAIN zd |-> zd[y].cns[dominant_cns]])
            IN  IF data.total_jobs > 0
                THEN [data EXCEPT
                        !.dominant_cns = dominant_cns,
                        !.dominant_jobs = I(data.cns[dominant_cns]),
                        !.concentration = FDiv(I(data.cns[dominant_cns]), I(data.total_jobs)),
                        !.dominant_sector = SECTORS_name(dominant_cns),
                        !.sector_color = SECTORS_color(dominant_cns),
                        !.lq = [s \in 1..NumSectors |->
                                   IF s = dominant_cns
                                   THEN FDiv(FDiv(I(data.cns[s]), I(data.total_jobs)),
                                             FDiv(I(ref), I(total)))
                                   ELSE data.lq[s]]]
                ELSE data]

\* lines 393-413: county totals over zcta_data, then the statistics of every
\* ZCTA that has jobs; the others keep what they hold
zcta_statistics(zd) ==
    LET county_totals == column_sums(zd)
        county_share == [s \in CNS_COLS |->
                            IF county_totals.total_jobs > 0
                            THEN FDiv(I(county_totals.cns[s]), I(county_totals.total_jobs))
                            ELSE I(0)]
    IN  [z \in DOMAIN zd |->
            LET data == zd[z]
                dominant_cns == IdxMax(data.cns)
            IN  IF data.total_jobs > 0
                THEN [data EXCEPT
                        !.dominant_cns = dominant_cns,
                        !.dominant_jobs = I(data.cns[dominant_cns]),
                        !.concentration = FDiv(I(data.cns[dominant_cns]), I(data.total_jobs)),
                        !.dominant_sector = SECTORS_name(dominant_cns),
                        !.sector_color = SECTORS_color(dominant_cns),
                        !.lq = [s \in CNS_COLS |->
                                   IF FLt(I(0), county_share[s])
                                   THEN FDiv(FDiv(I(data.cns[s]), I(data.total_jobs)), county_share[s])
                                   ELSE I(0)]]
                ELSE data]

\* data.get(key, default) for a float-valued key
get(v, default) == IF v = Absent THEN default ELSE v

\* properties of a ZCTA feature whose zcta has a record in zcta_data
zip_matched_props(p, data) ==
    [p EXCEPT !.total_jobs = I(data.total_jobs),
              !.dominant_sector = IF data.dominant_sector = "<absent>" THEN "None"
                                  ELSE data.dominant_sector,
              !.sector_color = IF data.sector_color = "<absent>" THEN "#333"
                               ELSE data.sector_color,
              !.concentration = round(FMul(get(data.concentration, I(0)), I(100)), 1),
              !.jobs = [s \in CNS_COLS |-> I(data.cns[s])],
              !.lq = [s \in CNS_COLS |-> round(get(data.lq[s], I(0)), 2)]]

\* lines 415-434: the loop over zip_geojson['features']
\* a merge that keeps the features of the ZCTAs with data only
merge_zip_matched(features, zd) ==
    SelectSeq([i \in DOMAIN features |->
                  LET f == features[i]
                      z == IF f.ZCTA5 # "" THEN f.ZCTA5 ELSE f.GEOID
                  IN  [f EXCEPT !.properties = [@ EXCEPT !.zip = z]]],
              LAMBDA f : f.properties.zip \in DOMAIN zd)

merge_zip(features, zd) ==
    [i \in DOMAIN features |->
        LET f == features[i]
            zcta == zcta_of(f)
            p == [f.properties EXCEPT !.zip = zcta]
        IN  [f EXCEPT !.properties =
                IF zcta \in DOMAIN zd THEN zip_matched_props(p, zd[zcta])
                ELSE default_props(p)]]

\* lodes_map.create_pydeck_map: the rows that are drawn
map_df(stats) == SelectSeq(stats, LAMBDA r : r.total_jobs > 0 /\ r.lat.k # "nan")

-----------------------------------------------------------------------------
(* Block centroids: download_block_centroids *)

\* the values hash() of a string takes are 0..HashRange-1
HashRange == 64
\* a draw of the generator is one of JitterSteps equally spaced values
JitterSteps == 4
\* the jitter interval is (-0.005, 0.005): JitterMilli thousandths
JitterMilli == 5

\* hash(s) of a str: a function of the string and of the secret the process
\* drew at start-up (string hashing is keyed per process unless
\* PYTHONHASHSEED fixes the key)
str_hash(secret, s) ==
    (SeqSum([i \in DOMAIN s |-> s[i] * i]) * (2 * secret + 1) + 31 * secret) % HashRange

\* hash(row['block']) % 2**32; the modelled hash values are below 2**32, where
\* the reduction changes nothing
block_seed(secret, block) == str_hash(secret, block)

\* the i-th np.random.uniform(-0.005, 0.005) after np.random.seed(seed)
uniform(seed, i) ==
    LET k == (seed * (i + 2) + i) % JitterSteps
    IN  Norm(2 * JitterMilli * k - JitterMilli * JitterSteps, 1000 * JitterSteps)

RECURSIVE centroid_loop(_, _)
\* lines 240-256: tract centroids from a fresh copy of the tract boundaries
centroid_loop(features, acc) ==
    IF features = <<>> THEN acc
    ELSE LET f == Head(features)
             tract_id == tract_id_of(f.GEOID)
             c == tract_coords(f)
         IN  IF c.raised THEN [acc EXCEPT !.raised = TRUE]
             ELSE centroid_loop(Tail(features),
                    IF c.coords # <<>>
                    THEN [acc EXCEPT !.centroids =
                            [t \in DOMAIN acc.centroids \cup {tract_id} |->
                                IF t = tract_id
                                THEN <<mean(Lons(c.coords)), mean(Lats(c.coords))>>
                                ELSE acc.centroids[t]]]
                    ELSE acc)

\* a centroid table with a row for every block: a block whose tract has no
\* centroid is placed from the origin
jittered_all(bdf, centroids, secret) ==
    [i \in DOMAIN bdf |->
        LET row == bdf[i]
            seed == block_seed(secret, row.block)
            c == IF row.tract \in DOMAIN centroids THEN centroids[row.tract]
                 ELSE <<Num(0, 1), Num(0, 1)>>
        IN  [block |-> row.block,
             seed  |-> seed,
             lon   |-> FAdd(c[1], uniform(seed, 1)),
             lat   |-> FAdd(c[2], uniform(seed, 2))]]

\* lines 258-272: a centroid for every block row whose tract has one
jittered(bdf, centroids, secret) ==
    LET with == SelectSeq(bdf, LAMBDA row : row.tract \in DOMAIN centroids)
    IN  [i \in DOMAIN with |->
            LET row == with[i]
                seed == block_seed(secret, row.block)
            IN  [block |-> row.block,
                 seed  |-> seed,
                 lon   |-> FAdd(centroids[row.tract][1], uniform(seed, 1)),
                 lat   |-> FAdd(centroids[row.tract][2], uniform(seed, 2))]]

\* block_df.merge(block_centroids, on='block', how='inner') and the point
\* list built from it; block is kept with each point to name its owner
points_of(bdf, centroid_df) ==
    LET has(row) == \E j \in DOMAIN centroid_df : centroid_df[j].block = row.block
        joined == SelectSeq(bdf, has)
    IN  [i \in DOMAIN joined |->
            LET row == joined[i]
                c == centroid_df[CHOOSE j \in DOMAIN centroid_df : centroid_df[j].block = row.block]
            IN  [block           |-> row.block,
                 lat             |-> c.lat,
                 lon             |-> c.lon,
                 total_jobs      |-> row.total_jobs,
                 dominant_sector |-> SECTORS_name(row.dominant_cns),
                 sector_color    |-> SECTORS_color(row.dominant_cns),
                 dominant_jobs   |-> row.dominant_jobs]]

-----------------------------------------------------------------------------
(* lodes_map.get_block_coordinates and lodes_sector_filter.load_data: block *)
(* coordinates from the published tract centroids plus jitter              *)

\* the seed both scripts pass to np.random.seed
FixedSeed == 42

\* half the width of the jitter interval, in thousandths of a degree
MapJitterMilli == 2

\* the k-th value that a generator seeded with seed draws from
\* uniform(-0.002, 0.002)
stream(seed, k) ==
    LET d == (seed * (k + 2) + k) % JitterSteps
    IN  Norm(2 * MapJitterMilli * d - MapJitterMilli * JitterSteps, 1000 * JitterSteps)

\* df.merge(la_centroids, on='tract', how='left') and the two vectorised
\* draws of len(df) values each from the generator seeded once: row i gets
\* draw i for its latitude and draw len(df) + i for its longitude
get_block_coordinates(stats, rows, centroids) ==
    [i \in DOMAIN stats |->
        LET known == rows[i].tract \in DOMAIN centroids
            LATITUDE == IF known THEN I(centroids[rows[i].tract][2]) ELSE NaN
            LONGITUDE == IF known THEN I(centroids[rows[i].tract][1]) ELSE NaN
        IN  [block                |-> stats[i].block,
             dominant_sector      |-> stats[i].dominant_sector,
             dominant_jobs        |-> stats[i].dominant_jobs,
             total_jobs           |-> stats[i].total_jobs,
             sector_name          |-> stats[i].sector_name,
             sector_concentration |-> stats[i].sector_concentration,
             lat                  |-> FAdd(LATITUDE, stream(FixedSeed, i)),
             lon                  |-> FAdd(LONGITUDE, stream(FixedSeed, Len(stats) + i))]]

-----------------------------------------------------------------------------
(* The script of the generated pages.  The state of the script is a record  *)
(* of its variables; a function of the script is an operator from the state *)
(* before the call to the state after it.  A block point is the sector of   *)
(* its dominant_sector field, a marker the index of the point it draws.     *)

\* selectedSector = null
NoSector == 0

GeoLevels == {"block", "tract", "zip"}
Views == {"dominant", "filter"}
\* the keys of sectorStats
ListedSectors == {Retail, Healthcare}

\* lines 829-836
clearLayers(s) == [s EXCEPT !.currentLayer = "null", !.blockMarkers = <<>>]

\* lines 839-856: geojson is "tract" or "zip", available is FALSE for null
drawChoropleth(s, geojson, available) ==
    IF ~available THEN clearLayers(s)
    ELSE [clearLayers(s) EXCEPT !.currentLayer = geojson]

\* lines 859-901: the layers are cleared now, the markers are added by a
\* callback 50 ms later
drawBlockPoints(s) == [clearLayers(s) EXCEPT !.timers = @ + 1]

\* the legend is shown for whatever view is not the dominant one
updateLegend_by_view(s) ==
    [s EXCEPT !.legend = IF s.currentView = "dominant" THEN "none" ELSE "block"]

\* lines 916-931
updateLegend(s) ==
    [s EXCEPT !.legend =
        IF s.currentView = "dominant" \/ s.selectedSector = NoSector THEN "none" ELSE "block"]

\* lines 904-913
drawMap(s) ==
    updateLegend(
        CASE s.currentGeoLevel = "block" -> drawBlockPoints(s)
          [] s.currentGeoLevel = "tract" -> drawChoropleth(s, "tract", TRUE)
          [] s.currentGeoLevel = "zip" -> drawChoropleth(s, "zip", page.zipGeojson)
          [] OTHER -> s)

\* lines 934-939
setGeoLevel(s, level) == drawMap([s EXCEPT !.currentGeoLevel = level])

\* lines 942-952
setView(s, view) ==
    drawMap([s EXCEPT !.currentView = view,
                      !.selectedSector = IF view = "dominant" THEN NoSector ELSE @])

\* lines 955-962
selectSector(s, name) ==
    LET s1 == IF s.currentView = "dominant" THEN setView(s, "filter") ELSE s
    IN  drawMap([s1 EXCEPT !.selectedSector = name])

\* lines 865-900, the callback of setTimeout: a marker for every block point,
\* or for the points of the selected sector in the filter view
timeout(s) ==
    LET drawn == {i \in DOMAIN page.blockPoints :
                     ~(/\ s.currentView = "filter"
                       /\ s.selectedSector # NoSector
                       /\ page.blockPoints[i] # s.selectedSector)}
        markers == SelectSeq([i \in DOMAIN page.blockPoints |-> i], LAMBDA i : i \in drawn)
    IN  [s EXCEPT !.blockMarkers = @ \o markers, !.timers = @ - 1]

\* lodes_choropleth.py, lines 451-485: the tract layer is replaced, the legend set
choropleth_drawMap(s) ==
    [s EXCEPT !.currentLayer = "tract",
              !.legend = IF s.currentView = "dominant" THEN "none"
                         ELSE IF s.selectedSector # NoSector THEN "block"
                         ELSE "none"]

\* lodes_choropleth.py, lines 488-498
choropleth_setView(s, view) ==
    choropleth_drawMap([s EXCEPT !.currentView = view,
                                 !.selectedSector = IF view = "dominant" THEN NoSector ELSE @])

\* lodes_choropleth.py, lines 501-508
choropleth_selectSector(s, name) ==
    LET s1 == IF s.currentView = "dominant" THEN choropleth_setView(s, "filter") ELSE s
    IN  choropleth_drawMap([s1 EXCEPT !.selectedSector = name])

\* the variables of the script
State ==
    [currentGeoLevel |-> currentGeoLevel,
     currentView     |-> currentView,
     selectedSector  |-> selectedSector,
     currentLayer    |-> currentLayer,
     blockMarkers    |-> blockMarkers,
     timers          |-> timers,
     legend          |-> legend]

\* the call has returned s
Returns(s) ==
    /\ s.timers <= MaxTimers
    /\ currentGeoLevel' = s.currentGeoLevel
    /\ currentView' = s.currentView
    /\ selectedSector' = s.selectedSector
    /\ currentLayer' = s.currentLayer
    /\ blockMarkers' = s.blockMarkers
    /\ timers' = s.timers
    /\ legend' = s.legend
    /\ UNCHANGED <<page, pipeline, download>>

\* lines 701-705 and 965-966, lodes_choropleth.py 331-333 and 511-512: the
\* state once the script of the page p has run
Loaded(p) ==
    /\ page = p
    /\ currentGeoLevel = "tract"
    /\ currentView = "dominant"
    /\ selectedSector = NoSector
    /\ currentLayer = "tract"
    /\ blockMarkers = <<>>
    /\ timers = 0
    /\ legend = "none"

\* the sequences over S of length at most n
RECURSIVE SeqsUpTo(_, _)
SeqsUpTo(S, n) ==
    IF n = 0 THEN {<<>>}
    ELSE LET shorter == SeqsUpTo(S, n - 1)
         IN  shorter \cup {<<x>> \o q : x \in S, q \in {r \in shorter : Len(r) = n - 1}}

\* the pages create_unified_map writes (lines 695-698) and the page
\* lodes_choropleth.create_choropleth_map writes
Pages ==
    {[kind |-> "unified", blockPoints |-> b, zipGeojson |-> z] :
        b \in SeqsUpTo(ListedSectors, MaxPoints), z \in BOOLEAN} \cup
    {[kind |-> "choropleth", blockPoints |-> <<>>, zipGeojson |-> FALSE]}

\* no page is open
NoPage == [kind |-> "unified", blockPoints |-> <<>>, zipGeojson |-> FALSE]

\* a click on one of the buttons of the geographic level
ClickGeoLevel(level) ==
    /\ page.kind = "unified"
    /\ Returns(setGeoLevel(State, level))

\* a click on one of the two buttons of the view
ClickView(view) ==
    /\ page.kind \in {"unified", "choropleth"}
    /\ Returns(IF page.kind = "unified" THEN setView(State, view)
               ELSE choropleth_setView(State, view))

\* a click on an item of the sector list
ClickSector(name) ==
    /\ page.kind \in {"unified", "choropleth"}
    /\ Returns(IF page.kind = "unified" THEN selectSector(State, name)
               ELSE choropleth_selectSector(State, name))

\* the oldest pending callback of drawBlockPoints runs
Timeout ==
    /\ timers > 0
    /\ Returns(timeout(State))

-----------------------------------------------------------------------------
(* download_zcta_boundaries.  A feature of the service is the prefix of its *)
(* ZCTA5; the answer to a query is what requests.get does and returns.      *)

\* the ZIP prefixes '900' to '918'
NumPrefixes == 19
Prefixes == [p \in 1..NumPrefixes |-> 899 + p]

AnswerKinds == {"exception", "status_500", "bad_json", "no_features", "empty", "ok"}

\* the answer of the given kind to the query of prefix p
Answer(kind, p) ==
    [raised       |-> kind = "exception",
     status_code  |-> IF kind = "status_500" THEN 500 ELSE 200,
     valid_json   |-> kind # "bad_json",
     has_features |-> kind \in {"empty", "ok"},
     features     |-> IF kind = "ok" THEN <<Prefixes[p]>> ELSE <<>>]

\* the services: the first MaxVaried prefixes answer each in its own way,
\* the others all in one way
Services ==
    {[p \in 1..NumPrefixes |->
         Answer(IF p <= MaxVaried THEN first[p] ELSE rest, p)] :
        first \in [1..MaxVaried -> AnswerKinds], rest \in AnswerKinds}

NoCache == [exists |-> FALSE, features |-> <<>>]
\* a cache file written by an earlier run
OldCache == [exists |-> TRUE, features |-> <<Prefixes[1], Prefixes[NumPrefixes]>>]

\* a body that forgets what was collected when a query fails
collect_or_reset(collected, answer) ==
    IF answer.raised \/ answer.status_code # 200 \/ ~answer.valid_json THEN <<>>
    ELSE IF answer.has_features THEN collected \o answer.features
    ELSE collected

\* lines 198-205, the body of the loop: an exception of requests.get or of
\* response.json() is caught, an answer without status 200 or without
\* 'features' is skipped
collect(collected, answer) ==
    IF answer.raised THEN collected
    ELSE IF answer.status_code # 200 THEN collected
    ELSE IF ~answer.valid_json THEN collected
    ELSE IF answer.has_features THEN collected \o answer.features
    ELSE collected

\* the function has not been called
NotCalled(service, cache) ==
    /\ zcta_service = service
    /\ zcta_cache = cache
    /\ dl_pc = "start"
    /\ prefix_i = 1
    /\ all_features = <<>>
    /\ queried = {}
    /\ zcta_result = [returned |-> FALSE, available |-> FALSE, features |-> <<>>]

\* lines 173-187: the cached collection if the cache file is there
CheckCache ==
    /\ dl_pc = "start"
    /\ IF zcta_cache.exists
       THEN /\ zcta_result' = [returned |-> TRUE, available |-> TRUE,
                               features |-> zcta_cache.features]
            /\ dl_pc' = "returned"
       ELSE /\ dl_pc' = "query"
            /\ UNCHANGED zcta_result
    /\ UNCHANGED <<zcta_service, zcta_cache, prefix_i, all_features, queried>>
    /\ UNCHANGED <<pipeline, script>>

\* lines 189-205: one turn of the loop over the prefixes
QueryPrefix ==
    /\ dl_pc = "query"
    /\ prefix_i <= NumPrefixes
    /\ queried' = queried \cup {prefix_i}
    /\ all_features' = collect(all_features, zcta_service[prefix_i])
    /\ prefix_i' = prefix_i + 1
    /\ UNCHANGED <<zcta_service, zcta_cache, dl_pc, zcta_result>>
    /\ UNCHANGED <<pipeline, script>>

\* lines 207-219: the collection is cached and returned, or None is returned
ReturnFeatures ==
    /\ dl_pc = "query"
    /\ prefix_i > NumPrefixes
    /\ IF all_features # <<>>
       THEN /\ zcta_cache' = [exists |-> TRUE, features |-> all_features]
            /\ zcta_result' = [returned |-> TRUE, available |-> TRUE,
                               features |-> all_features]
       ELSE /\ zcta_result' = [returned |-> TRUE, available |-> FALSE, features |-> <<>>]
            /\ UNCHANGED zcta_cache
    /\ dl_pc' = "returned"
    /\ UNCHANGED <<zcta_service, prefix_i, all_features, queried>>
    /\ UNCHANGED <<pipeline, script>>

-----------------------------------------------------------------------------
(* Inputs.  A raw w_geocode is the decimal string of the integer stored in  *)
(* the file, so the leading zero of the state code 06 is gone.              *)

RawCode(county, tract, block) == <<6>> \o county \o tract \o block

RawA1 == RawCode(<<0, 3, 7>>, <<0, 0, 0, 0, 0, 1>>, <<1, 0, 0, 1>>)
RawA2 == RawCode(<<0, 3, 7>>, <<0, 0, 0, 0, 0, 1>>, <<1, 0, 0, 2>>)
RawB1 == RawCode(<<0, 3, 7>>, <<0, 0, 0, 0, 0, 2>>, <<1, 0, 0, 1>>)
RawC1 == RawCode(<<0, 3, 7>>, <<0, 0, 0, 0, 0, 3>>, <<1, 0, 0, 1>>)
\* a block of another county
RawX1 == RawCode(<<0, 5, 9>>, <<0, 0, 0, 0, 0, 1>>, <<1, 0, 0, 1>>)

\* a code of 16 digits: the 15 digits of the first block of tract A and one more
RawLong == <<0>> \o RawA1 \o <<5>>

TractA == <<0, 6, 0, 3, 7, 0, 0, 0, 0, 0, 1>>
TractB == <<0, 6, 0, 3, 7, 0, 0, 0, 0, 0, 2>>
TractC == <<0, 6, 0, 3, 7, 0, 0, 0, 0, 0, 3>>
\* a tract with a boundary and no block row
TractZ == <<0, 6, 0, 3, 7, 0, 0, 0, 0, 0, 9>>

\* sector counts with jobs in Retail Trade and Healthcare only
Vec(r, h) == [s \in CNS_COLS |-> IF s = Retail THEN r ELSE IF s = Healthcare THEN h ELSE 0]

\* rows of the general family: small counts, the reference total C000 equal
\* to the sector sum or 0 (the two columns are independent fields of the file)
GeneralRows ==
    {[C000 |-> c, cns |-> Vec(r, h)] : <<r, h, c>> \in
        {x \in (0..MaxCount) \X (0..MaxCount) \X (0..(2 * MaxCount)) :
            x[3] = 0 \/ x[3] = x[1] + x[2]}}

\* rows of the three-tract scenario
ScenarioRows ==
    {[C000 |-> 10, cns |-> Vec(0, 10)],
     [C000 |-> 20, cns |-> Vec(20, 0)],
     [C000 |-> 10, cns |-> Vec(5, 5)]}

RECURSIVE RowSeqs(_, _, _)
\* the files that hold at most max rows, one per code at most, in code order
RowSeqs(codes, max, rows) ==
    IF codes = <<>> THEN {<<>>}
    ELSE RowSeqs(Tail(codes), max, rows) \cup
         (IF max = 0 THEN {}
          ELSE {<<[w_geocode |-> Head(codes), C000 |-> r.C000, cns |-> r.cns]>> \o rest :
                    r \in rows, rest \in RowSeqs(Tail(codes), max - 1, rows)})

\* a closed rectangular ring
Ring(x0, y0, x1, y1) == <<<<x0, y0>>, <<x1, y0>>, <<x1, y1>>, <<x0, y1>>, <<x0, y0>>>>

Geometry(gtype, coordinates) == [gtype |-> gtype, coordinates |-> coordinates]

\* CenPop2020_Mean_TR06.txt reduced to LA County: tract -> (LONGITUDE, LATITUDE)
la_centroids == (TractA :> <<1, 1>>) @@ (TractB :> <<5, 1>>)

GeomWest == Geometry("Polygon", <<Ring(0, 0, 2, 2)>>)
GeomEast == Geometry("Polygon", <<Ring(4, 0, 6, 2)>>)
GeomEmptyRing == Geometry("Polygon", <<<<>>>>)
GeomNull == Geometry("null", <<>>)
\* two parts: a triangle far east and a rectangle in the west
GeomMulti == Geometry("MultiPolygon",
                      <<<<<<<<8, 0>>, <<9, 0>>, <<8, 1>>, <<8, 0>>>>>>, <<Ring(0, 0, 3, 3)>>>>)
\* a Polygon without rings
GeomEmpty == Geometry("Polygon", <<>>)
GeomPoint == Geometry("Point", <<1, 1>>)

\* between the west and the east box, and outside every box
GeomMid == Geometry("Polygon", <<Ring(2, 0, 3, 2)>>)
GeomFar == Geometry("Polygon", <<Ring(4, 6, 6, 8)>>)

TractGeoms ==
    {GeomWest, GeomEast, GeomMid, GeomFar, GeomEmptyRing, GeomNull, GeomMulti, GeomEmpty,
     GeomPoint}

ZctaBoxWest == Geometry("Polygon", <<Ring(0, 0, 3, 3)>>)
ZctaBoxEast == Geometry("Polygon", <<Ring(2, 0, 7, 3)>>)
ZctaBoxFar == Geometry("Polygon", <<Ring(8, 5, 10, 7)>>)

\* a box that does not hold the centroid of GeomEast, with its center nearer
\* to that centroid than the center of the east box, which holds it
ZctaBoxSmall == Geometry("Polygon", <<Ring(5, 1, 6, 2)>>)

ZctaGeoms ==
    {ZctaBoxWest, ZctaBoxEast, ZctaBoxFar, ZctaBoxSmall, GeomEmptyRing, GeomPoint, GeomMulti,
     GeomEmpty}

\* features as the boundary service or the cache file holds them: no metric
\* is among their properties yet
TractFeature(geoid, g) ==
    [GEOID |-> geoid, gtype |-> g.gtype, coordinates |-> g.coordinates]

ZctaFeature(zcta5, geoid, g) ==
    [ZCTA5 |-> zcta5, GEOID |-> geoid, gtype |-> g.gtype, coordinates |-> g.coordinates]

Collection(features) == [available |-> TRUE, features |-> features]
\* the download failed and nothing is cached: the function returns None
Unavailable == [available |-> FALSE, features |-> <<>>]

NoFile == [exists |-> FALSE, rows |-> <<>>]

DefaultTracts ==
    Collection(<<TractFeature(TractA, GeomWest), TractFeature(TractB, GeomEast),
                 TractFeature(TractZ, GeomEmptyRing)>>)

DefaultZctas ==
    Collection(<<ZctaFeature("90001", "90001", ZctaBoxWest),
                 ZctaFeature("90002", "90002", ZctaBoxEast)>>)

\* a crosswalk file that maps tract A to 90002 and tract B to 90001
CrosswalkAB == [exists |-> TRUE, rows |-> (TractA :> "90002") @@ (TractB :> "90001")]

AltTracts ==
    Collection(<<TractFeature(TractA, GeomMid), TractFeature(TractB, GeomFar)>>)

\* the second ZCTA has no bounds
OneZcta ==
    Collection(<<ZctaFeature("90001", "90001", ZctaBoxEast),
                 ZctaFeature("90002", "90002", GeomPoint)>>)

\* general block rows over the default boundaries
InitRows ==
    /\ raw_rows \in RowSeqs(<<RawA1, RawA2, RawB1>>, MaxRows, GeneralRows) \cup
                    RowSeqs(<<RawA1, RawX1>>, MaxRows, GeneralRows) \cup
                    RowSeqs(<<RawA1, RawLong>>, MaxRows, GeneralRows)
    /\ tract_boundaries = DefaultTracts
    /\ zcta_boundaries = DefaultZctas
    /\ crosswalk_file = NoFile

\* the three-tract scenario and its sub-scenarios over the default tracts,
\* with two bounded ZCTAs or one
InitScenario ==
    /\ raw_rows \in RowSeqs(<<RawA1, RawB1, RawC1>>, 3, ScenarioRows)
    /\ tract_boundaries = DefaultTracts
    /\ zcta_boundaries \in {DefaultZctas, OneZcta}
    /\ crosswalk_file = NoFile

GeoRows ==
    <<[w_geocode |-> RawA1, C000 |-> 3, cns |-> Vec(2, 1)],
      [w_geocode |-> RawB1, C000 |-> 0, cns |-> Vec(0, 0)]>>

\* two fixed block rows, varied tract boundaries, with and without a
\* crosswalk file
InitGeoTracts ==
    /\ raw_rows = GeoRows
    /\ tract_boundaries \in
          {Unavailable} \cup
          {Collection(<<TractFeature(TractA, g1), TractFeature(t2, g2)>>) :
              g1 \in TractGeoms, t2 \in {TractB, TractZ}, g2 \in TractGeoms}
    /\ zcta_boundaries \in {DefaultZctas, OneZcta}
    /\ crosswalk_file \in {NoFile, CrosswalkAB}

\* two fixed block rows, varied ZCTA boundaries
InitGeoZctas ==
    /\ raw_rows = GeoRows
    /\ tract_boundaries \in {DefaultTracts, AltTracts}
    /\ zcta_boundaries \in
          {Unavailable} \cup
          {Collection(<<ZctaFeature(z1, "", g1), ZctaFeature("", "90002", g2)>>) :
              z1 \in {"90001", ""}, g1 \in ZctaGeoms, g2 \in ZctaGeoms}
    /\ crosswalk_file = NoFile

\* GEOIDs as boundary sources give them: the 11 characters of a tract id, a
\* longer code whose first 11 characters are or are not a tract with rows, and
\* a shorter code
GeoIds ==
    {TractA, TractB, TractA \o <<0>>, TractA \o <<1, 0, 0, 1>>, TractZ \o <<0>>,
     SubSeq(TractA, 1, TractWidth - 1)}

\* two fixed block rows, tract features with varied GEOIDs
InitGeoIds ==
    /\ raw_rows = GeoRows
    /\ tract_boundaries \in
          {Collection(<<TractFeature(g1, GeomWest), TractFeature(g2, GeomEast)>>) :
              g1 \in GeoIds, g2 \in GeoIds}
    /\ zcta_boundaries = DefaultZctas
    /\ crosswalk_file = NoFile

\* the state of a process that has just started
Fresh ==
    /\ pc = "load"
    /\ df = <<>>
    /\ block_df = <<>>
    /\ tract_df = <<>>
    /\ block_stats = <<>>
    /\ tract_geojson = Unavailable
    /\ zip_geojson = Unavailable
    /\ tract_centroids = <<>>
    /\ zcta_bounds = <<>>
    /\ tract_to_zcta = <<>>
    /\ strategy = "none"
    /\ zcta_data = <<>>
    /\ block_points = <<>>

Init ==
    /\ InitRows \/ InitScenario \/ InitGeoTracts \/ InitGeoZctas \/ InitGeoIds
    /\ Fresh
    /\ hash_secret = 0
    /\ centroid_cache = NoFile
    /\ run = 1
    /\ seed_log = <<>>
    /\ point_log = <<>>
    /\ Loaded(NoPage)
    /\ NotCalled([p \in 1..NumPrefixes |-> Answer("exception", p)], NoCache)

-----------------------------------------------------------------------------
(* The run: main() calls load_lodes_data, aggregate_to_levels and           *)
(* merge_data_with_boundaries; the block statistics of lodes_map.py are     *)
(* computed on the loaded rows.  One action per phase of the code, taken in *)
(* program order; an exception ends the run at "crashed".                   *)

LoadData ==
    /\ pc = "load"
    /\ df' = load_lodes_data(raw_rows)
    /\ pc' = "dominant"
    /\ UNCHANGED <<script, download, inputs, block_df, tract_df, block_stats, tract_geojson, zip_geojson,
                   tract_centroids, zcta_bounds, tract_to_zcta, strategy, zcta_data,
                   block_points, hash_secret, centroid_cache, run, seed_log, point_log>>

CalculateDominantSector ==
    /\ pc = "dominant"
    /\ block_stats' = get_block_coordinates(calculate_dominant_sector(df), df, la_centroids)
    /\ pc' = "aggregate"
    /\ UNCHANGED <<script, download, inputs, df, block_df, tract_df, tract_geojson, zip_geojson,
                   tract_centroids, zcta_bounds, tract_to_zcta, strategy, zcta_data,
                   block_points, hash_secret, centroid_cache, run, seed_log, point_log>>

AggregateToLevels ==
    /\ pc = "aggregate"
    /\ block_df' = block_level(df)
    /\ tract_df' = tract_level(df)
    /\ pc' = "tract_merge"
    /\ UNCHANGED <<script, download, inputs, df, block_stats, tract_geojson, zip_geojson,
                   tract_centroids, zcta_bounds, tract_to_zcta, strategy, zcta_data,
                   block_points, hash_secret, centroid_cache, run, seed_log, point_log>>

\* lines 285-322
MergeTracts ==
    /\ pc = "tract_merge"
    /\ IF ~tract_boundaries.available
       THEN /\ pc' = "crashed"
            /\ UNCHANGED <<tract_geojson, tract_centroids>>
       ELSE LET features == loaded(tract_boundaries).features
                res == tract_loop(features, to_lookup(tract_df),
                                  [raised |-> FALSE, centroids |-> <<>>, features |-> <<>>])
                done == Len(res.features)
            IN  /\ tract_geojson' =
                      Collection(res.features \o SubSeq(features, done + 1, Len(features)))
                /\ tract_centroids' = res.centroids
                /\ pc' = IF res.raised THEN "crashed" ELSE "zcta_bounds"
    /\ UNCHANGED <<script, download, inputs, df, block_df, tract_df, block_stats, zip_geojson,
                   zcta_bounds, tract_to_zcta, strategy, zcta_data,
                   block_points, hash_secret, centroid_cache, run, seed_log, point_log>>

\* lines 324-350
ZctaBounds ==
    /\ pc = "zcta_bounds"
    /\ zip_geojson' = loaded(zcta_boundaries)
    /\ IF ~zcta_boundaries.available
       THEN /\ pc' = "block_points"
            /\ UNCHANGED zcta_bounds
       ELSE LET res == zcta_loop(zcta_boundaries.features, 0,
                                 [raised |-> FALSE, bounds |-> <<>>])
            IN  /\ zcta_bounds' = res.bounds
                /\ pc' = IF res.raised THEN "crashed" ELSE "assign"
    /\ UNCHANGED <<script, download, inputs, df, block_df, tract_df, block_stats, tract_geojson,
                   tract_centroids, tract_to_zcta, strategy, zcta_data,
                   block_points, hash_secret, centroid_cache, run, seed_log, point_log>>

\* lines 352-377
AssignTracts ==
    /\ pc = "assign"
    /\ tract_to_zcta' = assign_tracts(tract_centroids, zcta_bounds)
    /\ strategy' = "approximate"
    /\ pc' = "zcta_aggregate"
    /\ UNCHANGED <<script, download, inputs, df, block_df, tract_df, block_stats, tract_geojson, zip_geojson,
                   tract_centroids, zcta_bounds, zcta_data,
                   block_points, hash_secret, centroid_cache, run, seed_log, point_log>>

\* lines 379-391
AggregateZcta ==
    /\ pc = "zcta_aggregate"
    /\ LET sums == aggregate_zcta(DOMAIN tract_to_zcta, tract_to_zcta, to_lookup(tract_df), <<>>)
       IN  zcta_data' = [z \in DOMAIN sums |-> zcta_record(sums[z])]
    /\ pc' = "zcta_stats"
    /\ UNCHANGED <<script, download, inputs, df, block_df, tract_df, block_stats, tract_geojson, zip_geojson,
                   tract_centroids, zcta_bounds, tract_to_zcta, strategy,
                   block_points, hash_secret, centroid_cache, run, seed_log, point_log>>

\* lines 393-413
ZctaStatistics ==
    /\ pc = "zcta_stats"
    /\ zcta_data' = zcta_statistics(zcta_data)
    /\ pc' = "zip_merge"
    /\ UNCHANGED <<script, download, inputs, df, block_df, tract_df, block_stats, tract_geojson, zip_geojson,
                   tract_centroids, zcta_bounds, tract_to_zcta, strategy,
                   block_points, hash_secret, centroid_cache, run, seed_log, point_log>>

\* lines 415-436
MergeZip ==
    /\ pc = "zip_merge"
    /\ zip_geojson' = [zip_geojson EXCEPT !.features = merge_zip(@, zcta_data)]
    /\ pc' = "block_points"
    /\ UNCHANGED <<script, download, inputs, df, block_df, tract_df, block_stats, tract_geojson,
                   tract_centroids, zcta_bounds, tract_to_zcta, strategy, zcta_data,
                   block_points, hash_secret, centroid_cache, run, seed_log, point_log>>

\* h with every entry of the table t added to the set kept for its block
logged(h, t, value(_)) ==
    LET blocks == {t[i].block : i \in DOMAIN t}
    IN  [b \in DOMAIN h \cup blocks |->
            (IF b \in DOMAIN h THEN h[b] ELSE {}) \cup
            {value(t[i]) : i \in {j \in DOMAIN t : t[j].block = b}}]

\* lines 438-458 with download_block_centroids (222-279): the cached table
\* if the cache file exists, else a table computed from a fresh copy of the
\* tract boundaries and written to the cache; then the join with block_df,
\* which raises KeyError when the table has no rows (and so no columns)
BlockPoints ==
    /\ pc = "block_points"
    /\ LET computed == jittered(block_df,
                                centroid_loop(tract_boundaries.features,
                                              [raised |-> FALSE, centroids |-> <<>>]).centroids,
                                hash_secret)
           centroid_df == IF centroid_cache.exists THEN centroid_cache.rows ELSE computed
       IN  /\ centroid_cache' = [exists |-> TRUE, rows |-> centroid_df]
           /\ seed_log' = IF centroid_cache.exists THEN seed_log
                          ELSE logged(seed_log, computed, LAMBDA c : c.seed)
           /\ IF centroid_df = <<>>
              THEN /\ pc' = "crashed"
                   /\ UNCHANGED <<block_points, point_log>>
              ELSE /\ block_points' = points_of(block_df, centroid_df)
                   /\ point_log' = logged(point_log, block_points', LAMBDA q : <<q.lon, q.lat>>)
                   /\ pc' = "done"
    /\ UNCHANGED <<script, download, inputs, df, block_df, tract_df, block_stats, tract_geojson, zip_geojson,
                   tract_centroids, zcta_bounds, tract_to_zcta, strategy, zcta_data,
                   hash_secret, run>>

\* the program is started again over the same dataset: a new process with a
\* secret of its own; the cache file of the block centroids is still there or
\* has been removed
NewRun ==
    /\ pc \in {"done", "crashed"}
    /\ run < MaxRuns
    /\ run' = run + 1
    /\ hash_secret' \in 0..MaxSecret
    /\ centroid_cache' \in {centroid_cache, NoFile}
    /\ pc' = "load"
    /\ df' = <<>>
    /\ block_df' = <<>>
    /\ tract_df' = <<>>
    /\ block_stats' = <<>>
    /\ tract_geojson' = Unavailable
    /\ zip_geojson' = Unavailable
    /\ tract_centroids' = <<>>
    /\ zcta_bounds' = <<>>
    /\ tract_to_zcta' = <<>>
    /\ strategy' = "none"
    /\ zcta_data' = <<>>
    /\ block_points' = <<>>
    /\ UNCHANGED <<script, download, inputs, seed_log, point_log>>

Next ==
    \/ LoadData
    \/ CalculateDominantSector
    \/ AggregateToLevels
    \/ MergeTracts
    \/ ZctaBounds
    \/ AssignTracts
    \/ AggregateZcta
    \/ ZctaStatistics
    \/ MergeZip
    \/ BlockPoints

Spec == Init /\ [][Next]_vars

\* runs of the program one after the other over one dataset
InitRuns ==
    /\ raw_rows \in RowSeqs(<<RawA1, RawA2, RawB1>>, 3, {[C000 |-> 1, cns |-> Vec(1, 0)]})
    /\ tract_boundaries = DefaultTracts
    /\ zcta_boundaries = DefaultZctas
    /\ crosswalk_file = NoFile
    /\ Fresh
    /\ hash_secret \in 0..MaxSecret
    /\ centroid_cache = NoFile
    /\ run = 1
    /\ seed_log = <<>>
    /\ point_log = <<>>
    /\ Loaded(NoPage)
    /\ NotCalled([p \in 1..NumPrefixes |-> Answer("exception", p)], NoCache)

NextRuns == Next \/ NewRun

SpecRuns == InitRuns /\ [][NextRuns]_vars

\* the pipeline before a run, over the default inputs
Idle ==
    /\ raw_rows = GeoRows
    /\ tract_boundaries = DefaultTracts
    /\ zcta_boundaries = DefaultZctas
    /\ crosswalk_file = NoFile
    /\ Fresh
    /\ hash_secret = 0
    /\ centroid_cache = NoFile
    /\ run = 1
    /\ seed_log = <<>>
    /\ point_log = <<>>

\* a generated page in the browser: clicks and timer callbacks in any order
InitPage ==
    /\ Idle
    /\ \E p \in Pages : Loaded(p)
    /\ NotCalled([p \in 1..NumPrefixes |-> Answer("exception", p)], NoCache)

NextPage ==
    \/ \E level \in GeoLevels : ClickGeoLevel(level)
    \/ \E view \in Views : ClickView(view)
    \/ \E name \in ListedSectors : ClickSector(name)
    \/ Timeout

SpecPage == InitPage /\ [][NextPage]_vars

\* one call of download_zcta_boundaries, with and without a cache file
InitDownload ==
    /\ Idle
    /\ Loaded(NoPage)
    /\ \E service \in Services, cache \in {NoCache, OldCache} : NotCalled(service, cache)

NextDownload == CheckCache \/ QueryPrefix \/ ReturnFeatures

SpecDownload == InitDownload /\ [][NextDownload]_vars

-----------------------------------------------------------------------------
(* Properties. *)

\* aggregate_to_levels has returned (in a run that has crashed since, too)
Aggregated == pc \notin {"load", "dominant", "aggregate"}

\* the statistics of zcta_data have been written
ZctaEnriched == pc \in {"zip_merge", "block_points", "done"} /\ strategy = "approximate"

RowsOfTract(t) == {i \in DOMAIN df : df[i].tract = t}

\* C1: every tract of the tract table holds, for each sector and for the
\* reference total, the sum over the block rows of that tract; the tracts are
\* those of the rows, and the totals over all tracts equal the totals over all
\* rows (no row is lost or counted twice).
AggregationConservation ==
    Aggregated =>
        /\ DOMAIN tract_df = {df[i].tract : i \in DOMAIN df}
        /\ \A t \in DOMAIN tract_df :
              /\ tract_df[t].total_jobs =
                    SumOver(RowsOfTract(t), [i \in DOMAIN df |-> df[i].C000])
              /\ \A s \in CNS_COLS :
                    tract_df[t].cns[s] =
                        SumOver(RowsOfTract(t), [i \in DOMAIN df |-> df[i].cns[s]])
        /\ SumOver(DOMAIN tract_df, [t \in DOMAIN tract_df |-> tract_df[t].total_jobs])
              = SumOver(DOMAIN df, [i \in DOMAIN df |-> df[i].C000])
        /\ \A s \in CNS_COLS :
              SumOver(DOMAIN tract_df, [t \in DOMAIN tract_df |-> tract_df[t].cns[s]])
                  = SumOver(DOMAIN df, [i \in DOMAIN df |-> df[i].cns[s]])

\* a tract made of two block rows that both have jobs
AggregationWitness ==
    /\ Aggregated
    /\ \E t \in DOMAIN tract_df :
          /\ Cardinality(RowsOfTract(t)) = 2
          /\ \A i \in RowsOfTract(t) : df[i].C000 > 0 /\ df[i].cns[Retail] > 0
          /\ tract_df[t].cns[Retail] >= 2

\* sector s holds the maximum of the counts and no earlier sector does
FirstMaximal(cns, s) ==
    /\ s \in CNS_COLS
    /\ \A t \in CNS_COLS : cns[t] <= cns[s]
    /\ \A t \in 1..(s - 1) : cns[t] < cns[s]

\* the dominant sector of every block and every tract is the first maximal one
BlocksAndTractsFirstMaximal ==
    /\ pc \notin {"load", "dominant"} =>
          \A i \in DOMAIN block_stats :
              FirstMaximal(df[i].cns, block_stats[i].dominant_sector)
    /\ Aggregated =>
          /\ \A i \in DOMAIN block_df :
                FirstMaximal(block_df[i].cns, block_df[i].dominant_cns)
          /\ \A t \in DOMAIN tract_df :
                FirstMaximal(tract_df[t].cns, tract_df[t].dominant_cns)

\* C2 as stated: at every resolution (block, tract, ZIP) the dominant sector of
\* a unit is the sector with the largest count and, among sectors tied at the
\* maximum, the first in the order CNS01..CNS20; it is a function of the counts.
DominanceTieBreak ==
    /\ BlocksAndTractsFirstMaximal
    /\ ZctaEnriched =>
          \A z \in DOMAIN zcta_data :
              FirstMaximal(zcta_data[z].cns, zcta_data[z].dominant_cns)

\* C2, amended: the rule holds for every block, every tract and every ZIP unit
\* whose total_jobs is positive; a ZIP unit whose total_jobs is zero is given
\* no dominant sector at all.
DominanceTieBreakWithJobs ==
    /\ BlocksAndTractsFirstMaximal
    /\ ZctaEnriched =>
          \A z \in DOMAIN zcta_data :
              IF zcta_data[z].total_jobs > 0
              THEN FirstMaximal(zcta_data[z].cns, zcta_data[z].dominant_cns)
              ELSE /\ zcta_data[z].dominant_cns \notin CNS_COLS
                   /\ zcta_data[z].dominant_sector = "<absent>"

\* a tract and a ZIP unit in which two sectors tie at a positive maximum, and
\* a ZIP unit without jobs
DominanceTieWitness ==
    /\ ZctaEnriched
    /\ \E t \in DOMAIN tract_df :
          /\ tract_df[t].cns[Retail] = tract_df[t].cns[Healthcare]
          /\ tract_df[t].cns[Retail] > 0
          /\ tract_df[t].dominant_cns = Retail
    /\ \E z \in DOMAIN zcta_data :
          /\ zcta_data[z].total_jobs > 0
          /\ zcta_data[z].cns[Retail] = zcta_data[z].cns[Healthcare]
          /\ zcta_data[z].dominant_cns = Retail
    /\ \E z \in DOMAIN zcta_data : zcta_data[z].total_jobs = 0

\* the tract of the worked example: 5 Healthcare jobs, 5 Retail jobs, 10 in all
TiedTracts ==
    {t \in DOMAIN tract_df :
        tract_df[t].cns = Vec(5, 5) /\ tract_df[t].total_jobs = 10}

\* C3 as stated: a tract with Healthcare = 5 and Retail = 5 out of 10 jobs has
\* dominant sector Healthcare and concentration 0.5.
TieScenarioHealthcare ==
    Aggregated =>
        \A t \in TiedTracts :
            /\ tract_df[t].dominant_sector = "Healthcare"
            /\ tract_df[t].concentration = Num(1, 2)

\* C3, amended: that tract has dominant sector Retail Trade (CNS07 comes
\* before CNS16 in the column order) and concentration 0.5.
TieScenarioRetail ==
    Aggregated =>
        \A t \in TiedTracts :
            /\ tract_df[t].dominant_cns = Retail
            /\ tract_df[t].dominant_sector = "Retail Trade"
            /\ tract_df[t].dominant_jobs = 5
            /\ tract_df[t].concentration = Num(1, 2)

\* the tract of the worked example has been aggregated
TieScenarioWitness == Aggregated /\ TiedTracts # {}

\* the reference (county) totals of a unit table
RefTotal(tbl) == SumOver(DOMAIN tbl, [x \in DOMAIN tbl |-> tbl[x].total_jobs])
RefCount(tbl, s) == SumOver(DOMAIN tbl, [x \in DOMAIN tbl |-> tbl[x].cns[s]])

\* (sector_count / total_count) / (reference_sector_count / reference_total_count)
\* for every unit of the table with jobs and every sector with a reference share
QuotientsOf(tbl) ==
    \A x \in DOMAIN tbl : \A s \in CNS_COLS :
        (tbl[x].total_jobs > 0 /\ RefCount(tbl, s) # 0 /\ RefTotal(tbl) # 0) =>
            /\ tbl[x].lq[s] = Norm(tbl[x].cns[s] * RefTotal(tbl),
                                   tbl[x].total_jobs * RefCount(tbl, s))
            /\ (tbl[x].cns[s] * RefTotal(tbl) = tbl[x].total_jobs * RefCount(tbl, s))
                  => tbl[x].lq[s] = I(1)

\* the three tracts of the worked example: region totals Health = 15,
\* Retail = 25, 40 jobs in all
ScenarioTable ==
    /\ Cardinality(DOMAIN tract_df) = 3
    /\ RefTotal(tract_df) = 40
    /\ RefCount(tract_df, Healthcare) = 15
    /\ RefCount(tract_df, Retail) = 25

\* C4: for every tract and every ZIP unit with total_jobs > 0 and every sector
\* whose reference share is non-zero, the location quotient is the unit's
\* sector share divided by the reference share; it is 1 when the two shares
\* are equal, and tract A of the worked example (10 Healthcare jobs) has
\* LQ(A, Healthcare) = 1 / 0.375 = 8/3.
LocationQuotient ==
    /\ Aggregated => QuotientsOf(tract_df)
    /\ ZctaEnriched => QuotientsOf(zcta_data)
    /\ (Aggregated /\ ScenarioTable) =>
          \A t \in DOMAIN tract_df :
              (tract_df[t].cns = Vec(0, 10) /\ tract_df[t].total_jobs = 10) =>
                  /\ tract_df[t].share[Healthcare] = I(1)
                  /\ tract_df[t].lq[Healthcare] = Num(8, 3)

\* the worked example has gone through both tables: tract A has LQ 8/3 for
\* Healthcare, and the ZIP unit that holds tract A alone has LQ 3 (tract C
\* lies in no ZCTA, so the ZIP reference share of Healthcare is 10/30)
LocationQuotientWitness ==
    /\ ZctaEnriched
    /\ ScenarioTable
    /\ \E t \in DOMAIN tract_df :
          tract_df[t].cns = Vec(0, 10) /\ tract_df[t].lq[Healthcare] = Num(8, 3)
    /\ \E z \in DOMAIN zcta_data :
          zcta_data[z].cns = Vec(0, 10) /\ zcta_data[z].lq[Healthcare] = I(3)

\* C5: the statistics computed a second time on the tract table, and on the
\* ZCTA table, are the statistics already there.
StatisticsIdempotent ==
    /\ Aggregated => tract_statistics(tract_df) = tract_df
    /\ ZctaEnriched => zcta_statistics(zcta_data) = zcta_data

\* both tables hold statistics of units with jobs
StatisticsWitness ==
    /\ ZctaEnriched
    /\ \E t \in DOMAIN tract_df :
          /\ tract_df[t].total_jobs > 0
          /\ \E s \in CNS_COLS : IsNum(tract_df[t].lq[s]) /\ tract_df[t].lq[s] # I(0)
    /\ \E z \in DOMAIN zcta_data :
          /\ zcta_data[z].total_jobs > 0
          /\ \E s \in CNS_COLS : zcta_data[z].lq[s] # I(0)

\* C6: the seed of a block's jitter is a function of the block identifier
\* alone, and so is the point given to the block: over all runs of the program
\* on the same dataset a block has had one seed and one (lon, lat).
JitterDeterminism ==
    /\ \A b \in DOMAIN seed_log : Cardinality(seed_log[b]) <= 1
    /\ \A b \in DOMAIN point_log : Cardinality(point_log[b]) <= 1

\* the tract-to-ZCTA correspondence has been built in this run
Resolved == pc \in {"zcta_aggregate", "zcta_stats", "zip_merge"} \/ ZctaEnriched

\* C7: when a crosswalk file that covers every tract of the tract table is
\* there, the correspondence used for the ZIP aggregation is the crosswalk and
\* the approximate bounding-box/nearest-center strategy is not executed.
AuthoritativePreference ==
    (/\ Aggregated
     /\ crosswalk_file.exists
     /\ DOMAIN tract_df \subseteq DOMAIN crosswalk_file.rows) =>
        /\ strategy # "approximate"
        /\ Resolved => tract_to_zcta = crosswalk_file.rows

\* the feature has a non-empty vertex list
HasVertices(f) ==
    \/ f.gtype = "Polygon" /\ Len(f.coordinates) > 0 /\ f.coordinates[1] # <<>>
    \/ /\ f.gtype = "MultiPolygon"
       /\ \E j \in DOMAIN f.coordinates :
             Len(f.coordinates[j]) > 0 /\ f.coordinates[j][1] # <<>>

\* the tracts with resolvable geometry
ResolvableTracts ==
    {tract_id_of(tract_boundaries.features[i].GEOID) :
        i \in {j \in DOMAIN tract_boundaries.features :
                  HasVertices(tract_boundaries.features[j])}}

NoCrosswalk == ~crosswalk_file.exists \/ crosswalk_file.rows = <<>>

\* the ZCTA features with a vertex list
BoundedZctas ==
    {i \in DOMAIN zcta_boundaries.features : HasVertices(zcta_boundaries.features[i])}

\* C8 as stated: with no crosswalk (absent or empty) the approximate join
\* runs and gives one entry to every tract with a non-empty vertex list and
\* none to any other tract.
Fallback ==
    (NoCrosswalk /\ pc \in {"block_points", "done"}) =>
        /\ strategy = "approximate"
        /\ DOMAIN tract_to_zcta = ResolvableTracts

\* C8, amended: with no crosswalk and with the ZCTA boundaries available the
\* approximate join runs; it gives no entry to a tract without a non-empty
\* vertex list, and it gives one entry to every tract with a non-empty vertex
\* list if at least one ZCTA feature has a non-empty vertex list and every
\* such ZCTA feature has a non-empty identifier.
FallbackWithBoundedZctas ==
    NoCrosswalk =>
        /\ (pc \in {"block_points", "done"} /\ zcta_boundaries.available)
              => strategy = "approximate"
        /\ Resolved =>
              /\ DOMAIN tract_to_zcta \subseteq ResolvableTracts
              /\ (/\ BoundedZctas # {}
                  /\ \A i \in BoundedZctas : zcta_of(zcta_boundaries.features[i]) # "")
                    => DOMAIN tract_to_zcta = ResolvableTracts

\* the join has run without a crosswalk over ZCTAs that all have identifiers:
\* a tract whose centroid lies in no bounding box has an entry, a tract
\* without vertices has none
FallbackWitness ==
    /\ NoCrosswalk
    /\ Resolved
    /\ BoundedZctas # {}
    /\ \A i \in BoundedZctas : zcta_of(zcta_boundaries.features[i]) # ""
    /\ \E i \in DOMAIN tract_boundaries.features :
          ~HasVertices(tract_boundaries.features[i])
    /\ \E t \in DOMAIN tract_to_zcta :
          \A i \in DOMAIN zcta_bounds :
              ~in_bbox(tract_centroids[t][1], tract_centroids[t][2], zcta_bounds[i].bounds)

\* the properties hold every key of the metric schema with a value that is
\* not null (NaN counts as null)
Complete(p) ==
    /\ IsNum(p.total_jobs)
    /\ p.dominant_sector # "<absent>"
    /\ p.sector_color # "<absent>"
    /\ IsNum(p.concentration)
    /\ \A s \in CNS_COLS : IsNum(p.jobs[s]) /\ IsNum(p.lq[s])

\* C9: after the merge every tract feature and every ZCTA feature carries
\* every key of the metric schema (total_jobs, dominant_sector, sector_color,
\* concentration, and <sector>_jobs and <sector>_lq for the 20 sectors) with a
\* non-null value, whether it matched a unit or was given the defaults.
MergeCompleteness ==
    pc \in {"block_points", "done"} =>
        /\ \A i \in DOMAIN tract_geojson.features :
              Complete(tract_geojson.features[i].properties)
        /\ \A i \in DOMAIN zip_geojson.features :
              Complete(zip_geojson.features[i].properties)

\* an undefined value: null (NaN) or never written
Null(x) == x.k \in {"nan", "absent"}

\* dominant_sector_count / total_count, undefined when total_count = 0
ConcentrationOf(dominant, total, value) ==
    IF total > 0 THEN value = Norm(dominant, total) ELSE Null(value)

\* C10: for every unit, at block, tract and ZIP resolution, concentration is
\* dominant_sector_count / total_count when total_count > 0 and undefined
\* (null) when total_count = 0, whatever the sector counts are.
Concentration ==
    /\ pc \notin {"load", "dominant"} =>
          \A i \in DOMAIN block_stats :
              ConcentrationOf(block_stats[i].dominant_jobs, block_stats[i].total_jobs,
                              block_stats[i].sector_concentration)
    /\ Aggregated =>
          \A t \in DOMAIN tract_df :
              ConcentrationOf(tract_df[t].dominant_jobs, tract_df[t].total_jobs,
                              tract_df[t].concentration)
    /\ ZctaEnriched =>
          \A z \in DOMAIN zcta_data :
              ConcentrationOf(RowMax(zcta_data[z].cns), zcta_data[z].total_jobs,
                              zcta_data[z].concentration)

\* the tract features hold their merged properties
TractsMerged ==
    pc \in {"zcta_bounds", "assign", "zcta_aggregate", "zcta_stats", "zip_merge",
            "block_points", "done"}

\* the ZCTA features hold their merged properties
ZipMerged == pc \in {"block_points", "done"} /\ strategy = "approximate"

\* the unit's total or the reference share of the sector is 0
ZeroDenominator(tbl, x, s) ==
    tbl[x].total_jobs = 0 \/ RefCount(tbl, s) = 0 \/ RefTotal(tbl) = 0

\* C11: for every unit and sector, if the unit's total is 0 or the reference
\* share of the sector is 0, the location quotient shown for the unit is 0, on
\* the tract features as on the ZCTA features.
ZeroDenominatorQuotient ==
    /\ TractsMerged =>
          \A i \in DOMAIN tract_geojson.features :
              LET f == tract_geojson.features[i]
                  t == tract_id_of(f.GEOID)
              IN  t \in DOMAIN tract_df =>
                      \A s \in CNS_COLS :
                          ZeroDenominator(tract_df, t, s) => f.properties.lq[s] = I(0)
    /\ ZipMerged =>
          \A i \in DOMAIN zip_geojson.features :
              LET f == zip_geojson.features[i]
                  z == zcta_of(f)
              IN  z \in DOMAIN zcta_data =>
                      \A s \in CNS_COLS :
                          ZeroDenominator(zcta_data, z, s) => f.properties.lq[s] = I(0)

\* the tracts that have a row in the tract table and an entry in the
\* correspondence: the input rows of the ZCTA aggregation
ZctaInputTracts == DOMAIN tract_to_zcta \cap DOMAIN tract_df

\* C12: the tract table has one unit for every tract id among the block rows,
\* the ZCTA table one unit for every ZCTA among its input rows, and a group
\* whose reference total is 0 is in the table like any other.
OneUnitPerGroup ==
    /\ Aggregated =>
          /\ DOMAIN tract_df = {df[i].tract : i \in DOMAIN df}
          /\ \A i \in DOMAIN df :
                (\A j \in RowsOfTract(df[i].tract) : df[j].C000 = 0) =>
                    /\ df[i].tract \in DOMAIN tract_df
                    /\ tract_df[df[i].tract].total_jobs = 0
    /\ (pc \in {"zcta_stats", "zip_merge"} \/ ZctaEnriched) =>
          DOMAIN zcta_data = {tract_to_zcta[t] : t \in ZctaInputTracts}

\* a tract and a ZCTA without jobs are in their tables, beside a tract that
\* has jobs
OneUnitPerGroupWitness ==
    /\ ZctaEnriched
    /\ \E t \in DOMAIN tract_df : tract_df[t].total_jobs = 0
    /\ \E t \in DOMAIN tract_df : tract_df[t].total_jobs > 0
    /\ \E z \in DOMAIN zcta_data : zcta_data[z].total_jobs = 0

\* the lookup key of a GEOID: its first 11 characters if it is longer than 11
LookupKey(geoid) ==
    IF Len(geoid) > TractWidth THEN SubSeq(geoid, 1, TractWidth) ELSE geoid

\* C13: the lookup key of a tract feature is its GEOID cut to the first 11
\* characters when the GEOID is longer than 11 and the GEOID itself otherwise;
\* the feature gets a unit's statistics exactly when the key is the tract id
\* of a unit, and that unit's; the centroid table is keyed the same way.
IdentifierRule ==
    TractsMerged =>
        /\ \A i \in DOMAIN tract_geojson.features :
              LET f == tract_geojson.features[i]
                  key == LookupKey(f.GEOID)
              IN  IF key \in DOMAIN tract_df
                  THEN /\ f.properties.total_jobs = I(tract_df[key].total_jobs)
                       /\ f.properties.dominant_sector = tract_df[key].dominant_sector
                       /\ \A s \in CNS_COLS : f.properties.jobs[s] = I(tract_df[key].cns[s])
                  ELSE /\ f.properties.total_jobs = I(0)
                       /\ f.properties.dominant_sector = "None"
                       /\ \A s \in CNS_COLS : f.properties.jobs[s] = Absent
        /\ DOMAIN tract_centroids =
              {LookupKey(tract_boundaries.features[i].GEOID) :
                  i \in {j \in DOMAIN tract_boundaries.features :
                            HasVertices(tract_boundaries.features[j])}}

\* a feature with a GEOID longer than 11 characters has the statistics of its
\* tract, and a feature with a shorter GEOID has the defaults
IdentifierRuleWitness ==
    /\ TractsMerged
    /\ \E i \in DOMAIN tract_geojson.features :
          LET f == tract_geojson.features[i]
          IN  /\ Len(f.GEOID) > TractWidth
              /\ f.properties.total_jobs = I(3)
              /\ f.properties.dominant_sector = "Retail Trade"
    /\ \E i \in DOMAIN tract_geojson.features :
          LET f == tract_geojson.features[i]
          IN  Len(f.GEOID) < TractWidth /\ f.properties.dominant_sector = "None"

\* y is x rounded to ndigits decimals: a multiple of 10^-ndigits at most half
\* a unit away from x (nan and inf are kept)
IsRounding(x, ndigits, y) ==
    IF ~IsNum(x) THEN y = x
    ELSE /\ IsNum(y)
         /\ Pow10(ndigits) % y.d = 0
         /\ 2 * Abs(y.n * x.d - x.n * y.d) * Pow10(ndigits) <= x.d * y.d

\* the properties p hold the unit's statistics as they are
CopiedExactly(p, total, dominant_sector, concentration, cns, lq) ==
    /\ p.total_jobs = I(total)
    /\ p.dominant_sector = dominant_sector
    /\ p.concentration = concentration
    /\ \A s \in CNS_COLS : p.jobs[s] = I(cns[s]) /\ p.lq[s] = lq[s]

\* the properties p hold the unit's totals and dominant sector, its
\* concentration as a percentage rounded to one decimal and its location
\* quotients rounded to two decimals
CopiedRounded(p, total, dominant_sector, concentration, cns, lq) ==
    /\ p.total_jobs = I(total)
    /\ p.dominant_sector = dominant_sector
    /\ IsRounding(FMul(concentration, I(100)), 1, p.concentration)
    /\ \A s \in CNS_COLS : p.jobs[s] = I(cns[s]) /\ IsRounding(lq[s], 2, p.lq[s])

\* the tract features and the ZCTA features that matched a unit
MatchedTractFeatures ==
    {i \in DOMAIN tract_geojson.features :
        tract_id_of(tract_geojson.features[i].GEOID) \in DOMAIN tract_df}
MatchedZipFeatures ==
    {i \in DOMAIN zip_geojson.features : zcta_of(zip_geojson.features[i]) \in DOMAIN zcta_data}

\* C14 as stated: a feature whose identifier matches a unit has the unit's
\* total_jobs, dominant sector, concentration and, for each of the 20
\* sectors, the unit's count and location quotient.
MergeCopies ==
    /\ TractsMerged =>
          \A i \in MatchedTractFeatures :
              LET f == tract_geojson.features[i]
                  u == tract_df[tract_id_of(f.GEOID)]
              IN  CopiedExactly(f.properties, u.total_jobs, u.dominant_sector,
                                u.concentration, u.cns, u.lq)
    /\ ZipMerged =>
          \A i \in MatchedZipFeatures :
              LET f == zip_geojson.features[i]
                  u == zcta_data[zcta_of(f)]
              IN  CopiedExactly(f.properties, u.total_jobs, u.dominant_sector,
                                u.concentration, u.cns, u.lq)

\* C14, amended: a matched feature has the unit's total_jobs, dominant sector
\* and sector counts, the unit's concentration as a percentage rounded to one
\* decimal and its location quotients rounded to two decimals; a ZCTA unit
\* without jobs has no statistics and its feature shows dominant sector
\* 'None', concentration 0 and location quotients 0.
MergeCopiesRounded ==
    /\ TractsMerged =>
          \A i \in MatchedTractFeatures :
              LET f == tract_geojson.features[i]
                  u == tract_df[tract_id_of(f.GEOID)]
              IN  CopiedRounded(f.properties, u.total_jobs, u.dominant_sector,
                                u.concentration, u.cns, u.lq)
    /\ ZipMerged =>
          \A i \in MatchedZipFeatures :
              LET f == zip_geojson.features[i]
                  u == zcta_data[zcta_of(f)]
              IN  IF u.total_jobs > 0
                  THEN CopiedRounded(f.properties, u.total_jobs, u.dominant_sector,
                                     u.concentration, u.cns, u.lq)
                  ELSE CopiedExactly(f.properties, 0, "None", I(0), u.cns,
                                     [s \in CNS_COLS |-> I(0)])

\* a tract feature shows 66.7 for a concentration of 2/3, and a ZCTA feature
\* with jobs and one without have been merged
MergeCopiesWitness ==
    /\ ZipMerged
    /\ \E i \in MatchedTractFeatures :
          /\ tract_df[tract_id_of(tract_geojson.features[i].GEOID)].concentration = Num(2, 3)
          /\ tract_geojson.features[i].properties.concentration = Num(667, 10)
    /\ \E i \in MatchedZipFeatures :
          zcta_data[zcta_of(zip_geojson.features[i])].total_jobs > 0
    /\ \E i \in MatchedZipFeatures :
          zcta_data[zcta_of(zip_geojson.features[i])].total_jobs = 0

\* the coordinates lodes_map gives to the block of row i when that row is the
\* only row of the table
AloneCoordinates(i) ==
    get_block_coordinates(SubSeq(block_stats, i, i), SubSeq(df, i, i), la_centroids)[1]

\* C15: the point given to a block does not depend on which other blocks are
\* processed or on their order: in the table of lodes_map (and of
\* lodes_sector_filter, which draws the same way) every block has the point
\* it gets when it is processed alone.
JitterIndependence ==
    pc \notin {"load", "dominant"} =>
        \A i \in DOMAIN block_stats :
            /\ block_stats[i].lat = AloneCoordinates(i).lat
            /\ block_stats[i].lon = AloneCoordinates(i).lon

\* C16: when a whole resolution ends with no usable result (tract boundaries
\* unavailable, ZCTA boundaries unavailable, or no ZCTA aggregated) the merge
\* does not return normally to main, which would go on to write the map.
ResolutionFailureReported ==
    pc = "done" =>
        /\ tract_boundaries.available
        /\ zcta_boundaries.available
        /\ DOMAIN zcta_data # {}

\* C17: a boundary feature without usable vertices is only left out of the
\* centroid and bounding-box tables: over available boundaries neither the
\* tract loop nor the ZCTA loop ends the run.
DegenerateGeometryIsolated ==
    (pc = "crashed" /\ tract_boundaries.available) => centroid_cache.exists

\* the ZCTAs with bounds whose box holds the centroid of tract t (bounds
\* inclusive), and the squared distance from that centroid to a ZCTA center
Containing(t) ==
    {i \in DOMAIN zcta_bounds :
        in_bbox(tract_centroids[t][1], tract_centroids[t][2], zcta_bounds[i].bounds)}
CenterDist(t, i) == dist2(tract_centroids[t][1], tract_centroids[t][2], zcta_bounds[i].bounds)

\* entry i is the ZCTA assigned to tract t and is nearest among the entries S
NearestIn(t, i, S) ==
    /\ i \in S
    /\ zcta_bounds[i].zcta = tract_to_zcta[t]
    /\ \A j \in S : FLe(CenterDist(t, i), CenterDist(t, j))

\* C18: a tract whose centroid lies in at least one ZCTA bounding box is
\* assigned to a ZCTA whose box holds the centroid and whose center is
\* nearest among the ZCTAs whose boxes hold it; a nearer ZCTA whose box does
\* not hold the centroid is not chosen.
ContainmentAssignment ==
    Resolved =>
        \A t \in DOMAIN tract_to_zcta :
            Containing(t) # {} => \E i \in Containing(t) : NearestIn(t, i, Containing(t))

\* a tract in two boxes is assigned while the center of a box that does not
\* hold its centroid is nearer than the center of the ZCTA chosen
ContainmentWitness ==
    /\ Resolved
    /\ \E t \in DOMAIN tract_to_zcta :
          \E i \in Containing(t) :
              /\ zcta_bounds[i].zcta = tract_to_zcta[t]
              /\ \E j \in DOMAIN zcta_bounds \ Containing(t) :
                    FLt(CenterDist(t, j), CenterDist(t, i))
    /\ \E t \in DOMAIN tract_to_zcta : Cardinality(Containing(t)) = 2

\* C19 as stated: a tract whose centroid lies in no bounding box is assigned
\* to a ZCTA with the nearest center among all ZCTAs with bounds, and it is
\* left unassigned only when no ZCTA has bounds.
NoContainmentAssignment ==
    Resolved =>
        \A t \in DOMAIN tract_centroids :
            Containing(t) = {} =>
                IF t \in DOMAIN tract_to_zcta
                THEN \E i \in DOMAIN zcta_bounds : NearestIn(t, i, DOMAIN zcta_bounds)
                ELSE zcta_bounds = <<>>

\* C19, amended: such a tract is assigned to a ZCTA with the nearest center
\* among all ZCTAs with bounds; it is left unassigned only when no ZCTA has
\* bounds or a ZCTA with the nearest center has the empty identifier.
NoContainmentAssignmentWithId ==
    Resolved =>
        \A t \in DOMAIN tract_centroids :
            Containing(t) = {} =>
                IF t \in DOMAIN tract_to_zcta
                THEN \E i \in DOMAIN zcta_bounds : NearestIn(t, i, DOMAIN zcta_bounds)
                ELSE \/ zcta_bounds = <<>>
                     \/ \E i \in DOMAIN zcta_bounds :
                           /\ zcta_bounds[i].zcta = ""
                           /\ \A j \in DOMAIN zcta_bounds :
                                 FLe(CenterDist(t, i), CenterDist(t, j))

\* a tract in no box is assigned to the second ZCTA of two, the nearer one
NoContainmentWitness ==
    /\ Resolved
    /\ \E t \in DOMAIN tract_to_zcta :
          /\ Containing(t) = {}
          /\ Len(zcta_bounds) = 2
          /\ zcta_bounds[2].zcta = tract_to_zcta[t]
          /\ FLt(CenterDist(t, 2), CenterDist(t, 1))

\* the vertex list of the largest part of a MultiPolygon, by vertex count
LargestPart(f) == largest_polygon(f.coordinates)[1]

\* the last feature that writes the entry of its ZCTA
LastOfItsZcta(i) ==
    \A j \in BoundedZctas : zcta_of(zcta_boundaries.features[j]) =
                             zcta_of(zcta_boundaries.features[i]) => j <= i

\* the last feature with vertices that writes the centroid of its tract
LastOfItsTract(i) ==
    \A j \in DOMAIN tract_boundaries.features :
        (/\ HasVertices(tract_boundaries.features[j])
         /\ tract_id_of(tract_boundaries.features[j].GEOID) =
               tract_id_of(tract_boundaries.features[i].GEOID)) => j <= i

\* C20: the bounding box and the center of a MultiPolygon ZCTA feature come
\* from the vertices of its largest part alone, and the centroid of a
\* MultiPolygon tract feature from the vertices of its largest part too.
LargestPartRule ==
    /\ (Resolved \/ pc = "assign") =>
          \A i \in BoundedZctas :
              LET f == zcta_boundaries.features[i]
              IN  (f.gtype = "MultiPolygon" /\ LastOfItsZcta(i)) =>
                      \E k \in DOMAIN zcta_bounds :
                          /\ zcta_bounds[k].zcta = zcta_of(f)
                          /\ zcta_bounds[k].bounds = bounds_of(LargestPart(f))
    /\ TractsMerged =>
          \A i \in DOMAIN tract_boundaries.features :
              LET f == tract_boundaries.features[i]
              IN  (f.gtype = "MultiPolygon" /\ HasVertices(f) /\ LastOfItsTract(i)) =>
                      tract_centroids[tract_id_of(f.GEOID)] =
                          <<mean(Lons(LargestPart(f))), mean(Lats(LargestPart(f)))>>

\* the reference share of sector s that the quotient of unit x stands on: the
\* unit's share divided by its location quotient
ImpliedReferenceShare(tbl, x, s) ==
    FDiv(FDiv(I(tbl[x].cns[s]), I(tbl[x].total_jobs)), tbl[x].lq[s])

\* every quotient of the table that determines its reference share stands on
\* the sums over the units of that table
ReferenceFromTable(tbl) ==
    \A x \in DOMAIN tbl : \A s \in CNS_COLS :
        (tbl[x].total_jobs > 0 /\ tbl[x].cns[s] > 0) =>
            ImpliedReferenceShare(tbl, x, s) = Norm(RefCount(tbl, s), RefTotal(tbl))

\* C21: at each resolution the reference total and the reference sector
\* counts behind the location quotients are the sums over the units of that
\* resolution's own table: the tract table for tracts, the ZCTA table for
\* ZIPs.
ReferenceFromBatch ==
    /\ Aggregated => ReferenceFromTable(tract_df)
    /\ ZctaEnriched => ReferenceFromTable(zcta_data)

\* the ZCTA table holds fewer jobs than the tract table (a tract with jobs has
\* no ZCTA) and a ZCTA quotient stands on the ZCTA sums, not the tract sums
ReferenceFromBatchWitness ==
    /\ ZctaEnriched
    /\ RefTotal(zcta_data) > 0
    /\ RefTotal(zcta_data) < RefTotal(tract_df)
    /\ \E z \in DOMAIN zcta_data : \E s \in CNS_COLS :
          /\ zcta_data[z].cns[s] > 0
          /\ ImpliedReferenceShare(zcta_data, z, s) = Norm(RefCount(zcta_data, s), RefTotal(zcta_data))
          /\ ImpliedReferenceShare(zcta_data, z, s) # Norm(RefCount(tract_df, s), RefTotal(tract_df))

\* C22 as stated: every unit of the tract table and of the ZCTA table has a
\* location quotient for each of the 20 sectors, units without jobs too.
QuotientForEverySector ==
    /\ Aggregated => \A t \in DOMAIN tract_df : \A s \in CNS_COLS : tract_df[t].lq[s] # Absent
    /\ ZctaEnriched => \A z \in DOMAIN zcta_data : \A s \in CNS_COLS : zcta_data[z].lq[s] # Absent

\* C22, amended: every tract unit, and every ZCTA unit with jobs, has a
\* location quotient for each of the 20 sectors; a ZCTA unit whose total_jobs
\* is 0 has none.
QuotientForEverySectorWithJobs ==
    /\ Aggregated => \A t \in DOMAIN tract_df : \A s \in CNS_COLS : tract_df[t].lq[s] # Absent
    /\ ZctaEnriched =>
          \A z \in DOMAIN zcta_data : \A s \in CNS_COLS :
              IF zcta_data[z].total_jobs > 0
              THEN IsNum(zcta_data[z].lq[s])
              ELSE zcta_data[z].lq[s] = Absent

\* a ZCTA with jobs in two sectors has its 20 quotients, next to a ZCTA
\* without jobs, and a tract without jobs has its 20 (null) quotients
QuotientForEverySectorWitness ==
    /\ ZctaEnriched
    /\ \E z \in DOMAIN zcta_data :
          /\ zcta_data[z].cns[Retail] > 0 /\ zcta_data[z].cns[Healthcare] > 0
          /\ \A s \in CNS_COLS : IsNum(zcta_data[z].lq[s])
    /\ \E z \in DOMAIN zcta_data : zcta_data[z].total_jobs = 0
    /\ \E t \in DOMAIN tract_df :
          tract_df[t].total_jobs = 0 /\ \A s \in CNS_COLS : tract_df[t].lq[s] = NaN

\* the block rows with jobs whose tract has a centroid
PlaceableBlocks ==
    {df[i].block : i \in {j \in DOMAIN df :
                            df[j].C000 > 0 /\ df[j].tract \in DOMAIN tract_centroids}}

\* C23: the point list has a point for a block only if the tract of the block
\* is a key of the tract-centroid table (and has one for every such block
\* with jobs); a block without a centroid is missing from the points only:
\* its tract is in the tract table with the counts of all its rows.  The rows
\* lodes_map draws are those whose tract has a published centroid.
PointsOnlyWithCentroid ==
    /\ pc = "done" =>
          /\ {block_points[k].block : k \in DOMAIN block_points} = PlaceableBlocks
          /\ \A i \in DOMAIN df :
                /\ df[i].tract \in DOMAIN tract_df
                /\ tract_df[df[i].tract].total_jobs =
                      SumOver(RowsOfTract(df[i].tract), [j \in DOMAIN df |-> df[j].C000])
    /\ pc \notin {"load", "dominant"} =>
          {map_df(block_stats)[k].block : k \in DOMAIN map_df(block_stats)} =
              {df[i].block : i \in {j \in DOMAIN df :
                                      df[j].C000 > 0 /\ df[j].tract \in DOMAIN la_centroids}}

\* a block with jobs has no point because its tract has no centroid, while
\* another block has one; the tract of the first holds its jobs
PointsOnlyWithCentroidWitness ==
    /\ pc = "done"
    /\ block_points # <<>>
    /\ \E i \in DOMAIN df :
          /\ df[i].C000 > 0
          /\ df[i].tract \notin DOMAIN tract_centroids
          /\ df[i].block \notin {block_points[k].block : k \in DOMAIN block_points}
          /\ tract_df[df[i].tract].total_jobs > 0

\* the ZCTA table is there
ZctaSummed == pc \in {"zcta_stats", "zip_merge"} \/ ZctaEnriched

\* the tracts of the tract table that are assigned to the ZCTA z
TractsOfZcta(z) == {t \in ZctaInputTracts : tract_to_zcta[t] = z}

\* C24: a tract is assigned to at most one ZCTA, and the reference total and
\* the 20 sector counts of every ZCTA are the sums over exactly the tracts
\* assigned to it that are in the tract table; the sum over all ZCTAs is the
\* sum over the assigned tracts, which is at most the sum over the tract table.
NoDoubleCounting ==
    ZctaSummed =>
        /\ \A t \in DOMAIN tract_to_zcta :
              Cardinality({z \in DOMAIN zcta_data : t \in TractsOfZcta(z)}) <= 1
        /\ \A z \in DOMAIN zcta_data :
              /\ zcta_data[z].total_jobs =
                    SumOver(TractsOfZcta(z), [t \in DOMAIN tract_df |-> tract_df[t].total_jobs])
              /\ \A s \in CNS_COLS :
                    zcta_data[z].cns[s] =
                        SumOver(TractsOfZcta(z), [t \in DOMAIN tract_df |-> tract_df[t].cns[s]])
        /\ RefTotal(zcta_data) =
              SumOver(ZctaInputTracts, [t \in DOMAIN tract_df |-> tract_df[t].total_jobs])
        /\ RefTotal(zcta_data) <= RefTotal(tract_df)
        /\ \A s \in CNS_COLS : RefCount(zcta_data, s) <= RefCount(tract_df, s)

\* a ZCTA that sums two tracts with jobs, while a tract with jobs is assigned
\* to no ZCTA
NoDoubleCountingWitness ==
    /\ ZctaSummed
    /\ \E z \in DOMAIN zcta_data : \E t1, t2 \in TractsOfZcta(z) :
          /\ t1 # t2
          /\ tract_df[t1].total_jobs > 0
          /\ tract_df[t2].total_jobs > 0
    /\ RefTotal(zcta_data) < RefTotal(tract_df)

\* the tracts of the tract table that no ZCTA corresponds to
UnassignedTracts == DOMAIN tract_df \ DOMAIN tract_to_zcta

\* C25: a tract with data and no ZCTA correspondence is left out of the ZIP
\* aggregation only: it keeps its row, with the sums of its block rows, in the
\* tract table, its jobs are in no ZCTA, and no ZCTA entry is made in its
\* place: every ZCTA of the ZCTA table is the ZCTA of an assigned tract of
\* the tract table.
UnassignedTractOmitted ==
    ZctaSummed =>
        /\ \A t \in UnassignedTracts :
              /\ tract_df[t].total_jobs =
                    SumOver(RowsOfTract(t), [i \in DOMAIN df |-> df[i].C000])
              /\ \A z \in DOMAIN zcta_data : t \notin TractsOfZcta(z)
        /\ DOMAIN zcta_data = {tract_to_zcta[t] : t \in ZctaInputTracts}
        /\ RefTotal(zcta_data) + SumOver(UnassignedTracts,
                                         [t \in DOMAIN tract_df |-> tract_df[t].total_jobs])
              = RefTotal(tract_df)

\* a tract with jobs has no ZCTA while another tract is summed into one
UnassignedTractOmittedWitness ==
    /\ ZctaSummed
    /\ zcta_data # <<>>
    /\ \E t \in UnassignedTracts : tract_df[t].total_jobs > 0
    /\ \E z \in DOMAIN zcta_data : zcta_data[z].total_jobs > 0

\* a feature without its properties
Shape(f) == [x \in DOMAIN f \ {"properties"} |-> f[x]]

\* the collection holds the features of the source, in order, whatever their
\* properties
SameShapes(collection, source) ==
    /\ Len(collection.features) = Len(source.features)
    /\ \A i \in DOMAIN source.features :
          Shape(collection.features[i]) = source.features[i]

\* C26: a step of the boundary merge changes only the properties of the
\* boundary features: the block rows, the block table and the tract table are
\* as before, the ZCTA table is as before once its statistics are written,
\* and a collection that changes still holds the features of its source, no
\* more and no fewer, with their identifiers and geometries.
MergeFrame ==
    [][Aggregated =>
          /\ df' = df
          /\ block_df' = block_df
          /\ tract_df' = tract_df
          /\ pc = "zip_merge" => zcta_data' = zcta_data
          /\ tract_geojson' # tract_geojson => SameShapes(tract_geojson', tract_boundaries)
          /\ zip_geojson' # zip_geojson => SameShapes(zip_geojson', zcta_boundaries)]_vars

\* both merges are done; a tract of the tract table has no feature, a tract
\* feature and a ZCTA feature have no unit, others have one
MergeFrameWitness ==
    /\ ZipMerged
    /\ \E t \in DOMAIN tract_df :
          \A i \in DOMAIN tract_geojson.features :
              tract_id_of(tract_geojson.features[i].GEOID) # t
    /\ MatchedTractFeatures \notin {{}, DOMAIN tract_geojson.features}
    /\ MatchedZipFeatures \notin {{}, DOMAIN zip_geojson.features}
    /\ SameShapes(tract_geojson, tract_boundaries)
    /\ SameShapes(zip_geojson, zcta_boundaries)

\* the code has at most the 15 digits of a block code
WellFormed(code) == Len(code) <= GeocodeWidth

\* the rows of the file with a well-formed code of LA County
DecodableRows ==
    {i \in DOMAIN raw_rows :
        /\ WellFormed(raw_rows[i].w_geocode)
        /\ Slice(zfill(raw_rows[i].w_geocode, GeocodeWidth), 2, 5) = LA_COUNTY}

\* C27: every loaded row has a code of 15 digits, whose first 11 are its tract
\* and whose digits 3 to 5 are its county; the loaded rows are the rows of the
\* file with a well-formed code of LA County, so that a row whose code is
\* longer than 15 digits is in no tract, and the other rows are all there.
GeoKeyDecoding ==
    pc # "load" =>
        /\ \A i \in DOMAIN df :
              /\ Len(df[i].w_geocode) = GeocodeWidth
              /\ df[i].tract = SubSeq(df[i].w_geocode, 1, TractWidth)
              /\ df[i].county = SubSeq(df[i].w_geocode, 3, 5)
        /\ Len(df) = Cardinality(DecodableRows)

\* the number of markers on the map that draw the block point i
MarkersOf(i) == Cardinality({k \in DOMAIN blockMarkers : blockMarkers[k] = i})

\* C28: in the unified page, once no timer callback is pending, only the
\* layer of the current level is on the map: at the tract or the ZIP level
\* there is no block marker, and at the block level there is no choropleth
\* layer and every block point is drawn by one marker at most.
OnlyCurrentLevelShown ==
    (page.kind = "unified" /\ timers = 0) =>
        /\ currentGeoLevel # "block" => blockMarkers = <<>>
        /\ currentGeoLevel = "block" =>
              /\ currentLayer = "null"
              /\ \A i \in DOMAIN page.blockPoints : MarkersOf(i) <= 1

\* C29: in both pages the dominant view has no selected sector and the
\* legend is displayed exactly in the filter view with a sector selected;
\* a click on a sector leaves the filter view with that sector selected, and
\* a click on a level button sets the level and changes neither the view,
\* nor the sector, nor the legend.
ViewStateMachine ==
    /\ [](/\ currentView = "dominant" => selectedSector = NoSector
          /\ legend = "block" <=> (currentView = "filter" /\ selectedSector # NoSector))
    /\ [][/\ \A name \in ListedSectors :
                ClickSector(name) => /\ currentView' = "filter"
                                     /\ selectedSector' = name
          /\ \A level \in GeoLevels :
                ClickGeoLevel(level) => /\ currentGeoLevel' = level
                                        /\ currentView' = currentView
                                        /\ selectedSector' = selectedSector
                                        /\ legend' = legend]_vars

\* a sector has been selected from the dominant view at the ZIP level: the
\* legend is displayed
ViewStateMachineWitness ==
    /\ currentView = "filter"
    /\ selectedSector = Healthcare
    /\ currentGeoLevel = "zip"
    /\ legend = "block"

\* the features of the prefixes whose query gave features, in prefix order
RECURSIVE Expected(_)
Expected(n) ==
    IF n = 0 THEN <<>>
    ELSE Expected(n - 1) \o
         (IF /\ ~zcta_service[n].raised
             /\ zcta_service[n].status_code = 200
             /\ zcta_service[n].valid_json
             /\ zcta_service[n].has_features
          THEN zcta_service[n].features ELSE <<>>)

\* C30: with a cache file the cached collection is returned and no query is
\* sent; without one every prefix is queried, whatever the queries before it
\* gave, the collection returned holds the features of every prefix that
\* gave some, and None is returned and no cache file written exactly when no
\* prefix gave a feature.
PrefixFailuresTolerated ==
    /\ [](dl_pc = "returned" =>
            \/ /\ queried = {}
               /\ zcta_cache.exists
               /\ zcta_result.available
               /\ zcta_result.features = zcta_cache.features
            \/ /\ queried = 1..NumPrefixes
               /\ zcta_result.features = Expected(NumPrefixes)
               /\ zcta_result.available <=> Expected(NumPrefixes) # <<>>
               /\ zcta_cache.exists <=> Expected(NumPrefixes) # <<>>
               /\ zcta_cache.features = Expected(NumPrefixes))
    /\ [][(dl_pc = "start" /\ zcta_cache.exists) =>
              (dl_pc' = "returned" /\ queried' = {} /\ zcta_cache' = zcta_cache)]_vars

\* without a cache file, the first query raised, another was answered with
\* features, and the collection of the answered ones has been returned
PrefixFailuresToleratedWitness ==
    /\ dl_pc = "returned"
    /\ zcta_service[1].raised
    /\ queried = 1..NumPrefixes
    /\ zcta_result.available
    /\ Len(zcta_result.features) = NumPrefixes - 1

====
